---- MODULE Spec2Model ----
(***************************************************************************)
(* Model of the user-access-review engine: the record normaliser           *)
(* (models/data_source.py), the comparator and the dynamic rule engine     *)
(* (dynamic_analysis.py).                                                  *)
(*                                                                         *)
(* Text is modelled as a sequence of one-character strings, so that regex  *)
(* matching, case folding, splitting and parsing are computed character    *)
(* by character.  A canonical value is a tagged record:                    *)
(*    [k |-> "str",  s |-> <<chars>>]        a Python str                  *)
(*    [k |-> "bool", b |-> TRUE/FALSE]       a Python bool                 *)
(*    [k |-> "date", wall, aware, off]       a datetime: wall clock in     *)
(*                                           hours since 1970-01-01T00:00, *)
(*                                           tz-aware or naive, UTC offset *)
(*                                           in hours                      *)
(*    [k |-> "int",  n |-> i]                a Python int                  *)
(*    [k |-> "none"]                         None                          *)
(***************************************************************************)
EXTENDS Integers, Sequences, FiniteSets, TLC

----------------------------------------------------------------------------
(* Characters *)

UpperChars == {"A","B","C","D","E","F","G","H","I","J","K","L","M",
               "N","O","P","Q","R","S","T","U","V","W","X","Y","Z"}

LowerChars == {"a","b","c","d","e","f","g","h","i","j","k","l","m",
               "n","o","p","q","r","s","t","u","v","w","x","y","z"}

DigitChars == {"0","1","2","3","4","5","6","7","8","9"}

\* the characters the regex class \w matches
WordChars == UpperChars \cup LowerChars \cup DigitChars \cup {"_"}

\* str.lower() / str.casefold() on one character
LowerChar(c) ==
    CASE c = "A" -> "a" [] c = "B" -> "b" [] c = "C" -> "c" [] c = "D" -> "d"
      [] c = "E" -> "e" [] c = "F" -> "f" [] c = "G" -> "g" [] c = "H" -> "h"
      [] c = "I" -> "i" [] c = "J" -> "j" [] c = "K" -> "k" [] c = "L" -> "l"
      [] c = "M" -> "m" [] c = "N" -> "n" [] c = "O" -> "o" [] c = "P" -> "p"
      [] c = "Q" -> "q" [] c = "R" -> "r" [] c = "S" -> "s" [] c = "T" -> "t"
      [] c = "U" -> "u" [] c = "V" -> "v" [] c = "W" -> "w" [] c = "X" -> "x"
      [] c = "Y" -> "y" [] c = "Z" -> "z" [] OTHER -> c

Lower(s) == [i \in 1..Len(s) |-> LowerChar(s[i])]

\* str.upper on the letters of the model's texts
UpperChar(c) ==
    CASE c = "a" -> "A" [] c = "b" -> "B" [] c = "c" -> "C" [] c = "d" -> "D"
      [] c = "e" -> "E" [] c = "f" -> "F" [] c = "g" -> "G" [] c = "h" -> "H"
      [] c = "i" -> "I" [] c = "j" -> "J" [] c = "k" -> "K" [] c = "l" -> "L"
      [] c = "m" -> "M" [] c = "n" -> "N" [] c = "o" -> "O" [] c = "p" -> "P"
      [] c = "q" -> "Q" [] c = "r" -> "R" [] c = "s" -> "S" [] c = "t" -> "T"
      [] c = "u" -> "U" [] c = "v" -> "V" [] c = "w" -> "W" [] c = "x" -> "X"
      [] c = "y" -> "Y" [] c = "z" -> "Z" [] OTHER -> c

Upper(s) == [i \in 1..Len(s) |-> UpperChar(s[i])]

DigitVal(c) ==
    CASE c = "0" -> 0 [] c = "1" -> 1 [] c = "2" -> 2 [] c = "3" -> 3
      [] c = "4" -> 4 [] c = "5" -> 5 [] c = "6" -> 6 [] c = "7" -> 7
      [] c = "8" -> 8 [] c = "9" -> 9 [] OTHER -> 0

SetMax(S) == CHOOSE x \in S : \A y \in S : y <= x

SetMin(S) == CHOOSE x \in S : \A y \in S : x <= y

\* str.strip() == '' : only whitespace
IsBlank(s) == \A i \in 1..Len(s) : s[i] = " "

----------------------------------------------------------------------------
(* Regular expressions: re.match / regex.match on the pattern syntax the   *)
(* configuration files use: literals, \x escapes, ^, $, ., .* and the      *)
(* capture group (\w+).  The match is anchored at the start of the text    *)
(* only; quantifiers are greedy with backtracking.                         *)

NoMatch == [ok |-> FALSE, groups |-> <<>>]

\* is the capture group (\w+) at position pi of pattern p
IsWordGroup(p, pi) ==
    /\ pi + 4 <= Len(p)
    /\ p[pi] = "(" /\ p[pi+1] = "\\" /\ p[pi+2] = "w"
    /\ p[pi+3] = "+" /\ p[pi+4] = ")"

\* number of consecutive \w characters of s from position si
WordRun(s, si) ==
    SetMax({n \in 0..(Len(s) - si + 1) :
               \A j \in si..(si + n - 1) : s[j] \in WordChars})

RECURSIVE MatchHere(_, _, _, _, _)
MatchHere(p, pi, s, si, caps) ==
    IF pi > Len(p) THEN [ok |-> TRUE, groups |-> caps]
    ELSE IF p[pi] = "^" THEN
        IF si = 1 THEN MatchHere(p, pi + 1, s, si, caps) ELSE NoMatch
    ELSE IF p[pi] = "$" THEN
        IF si = Len(s) + 1 THEN MatchHere(p, pi + 1, s, si, caps) ELSE NoMatch
    ELSE IF IsWordGroup(p, pi) THEN
        LET good == {n \in 1..WordRun(s, si) :
                        MatchHere(p, pi + 5, s, si + n,
                                  Append(caps, SubSeq(s, si, si + n - 1))).ok}
        IN  IF good = {} THEN NoMatch
            ELSE MatchHere(p, pi + 5, s, si + SetMax(good),
                           Append(caps, SubSeq(s, si, si + SetMax(good) - 1)))
    ELSE IF p[pi] = "." /\ pi < Len(p) /\ p[pi+1] = "*" THEN
        LET good == {n \in 0..(Len(s) - si + 1) :
                        MatchHere(p, pi + 2, s, si + n, caps).ok}
        IN  IF good = {} THEN NoMatch
            ELSE MatchHere(p, pi + 2, s, si + SetMax(good), caps)
    ELSE IF p[pi] = "." THEN
        IF si <= Len(s) THEN MatchHere(p, pi + 1, s, si + 1, caps) ELSE NoMatch
    ELSE IF p[pi] = "\\" /\ pi < Len(p) THEN
        IF si <= Len(s) /\ s[si] = p[pi+1]
        THEN MatchHere(p, pi + 2, s, si + 1, caps) ELSE NoMatch
    ELSE
        IF si <= Len(s) /\ s[si] = p[pi]
        THEN MatchHere(p, pi + 1, s, si + 1, caps) ELSE NoMatch

\* re.match(p, s): a match object (ok, capture groups) or no match
RegexMatch(p, s) == MatchHere(p, 1, s, 1, <<>>)

\* match.expand(t): \N in the template is replaced by capture group N;
\* a reference to a group the pattern does not have raises
RECURSIVE ExpandFrom(_, _, _)
ExpandFrom(t, i, caps) ==
    IF i > Len(t) THEN [ok |-> TRUE, s |-> <<>>]
    ELSE IF t[i] = "\\" /\ i < Len(t) /\ t[i+1] \in DigitChars THEN
        IF DigitVal(t[i+1]) \in 1..Len(caps)
        THEN LET r == ExpandFrom(t, i + 2, caps)
             IN  [ok |-> r.ok, s |-> caps[DigitVal(t[i+1])] \o r.s]
        ELSE [ok |-> FALSE, s |-> <<>>]
    ELSE LET r == ExpandFrom(t, i + 1, caps)
         IN  [ok |-> r.ok, s |-> <<t[i]>> \o r.s]

Expand(t, caps) == ExpandFrom(t, 1, caps)

\* s.split(sep): the list of pieces of s between occurrences of character sep
RECURSIVE SplitFrom(_, _, _, _)
SplitFrom(s, sep, i, cur) ==
    IF i > Len(s) THEN <<cur>>
    ELSE IF s[i] = sep THEN <<cur>> \o SplitFrom(s, sep, i + 1, <<>>)
    ELSE SplitFrom(s, sep, i + 1, Append(cur, s[i]))

Split(s, sep) == SplitFrom(s, sep, 1, <<>>)

----------------------------------------------------------------------------
(* Canonical values *)

VStr(s) == [k |-> "str", s |-> s]

VBool(b) == [k |-> "bool", b |-> b]

VInt(n) == [k |-> "int", n |-> n]

VDate(wall, aware, off) == [k |-> "date", wall |-> wall, aware |-> aware, off |-> off]

VNone == [k |-> "none"]

\* the hours in a day
HoursPerDay == 24

\* ValidationHelper.NEVER_LOGGED_IN = parse('1970-01-01T00:00:00Z')
NEVER_LOGGED_IN == VDate(0, TRUE, 0)

\* datetime == datetime: two aware values are equal when they are the same
\* instant, two naive values when they have the same wall clock; an aware
\* and a naive value are never equal
DateEq(a, b) ==
    IF a.aware /\ b.aware THEN a.wall - a.off = b.wall - b.off
    ELSE IF ~a.aware /\ ~b.aware THEN a.wall = b.wall
    ELSE FALSE

\* Python == on canonical values
ValEq(a, b) ==
    IF a.k = "date" /\ b.k = "date" THEN DateEq(a, b)
    ELSE IF a.k = "bool" /\ b.k = "int" THEN (IF a.b THEN 1 ELSE 0) = b.n
    ELSE IF a.k = "int" /\ b.k = "bool" THEN a.n = (IF b.b THEN 1 ELSE 0)
    ELSE a = b

----------------------------------------------------------------------------
(* The canonical schema: config/common_fields.py *)

S_active      == <<"a","c","t","i","v","e">>
S_inactive    == <<"i","n","a","c","t","i","v","e">>
S_suspended   == <<"s","u","s","p","e","n","d","e","d">>
S_deactivated == <<"d","e","a","c","t","i","v","a","t","e","d">>
S_deleted     == <<"d","e","l","e","t","e","d">>
S_unknown     == <<"u","n","k","n","o","w","n">>
S_employee    == <<"e","m","p","l","o","y","e","e">>
S_contractor  == <<"c","o","n","t","r","a","c","t","o","r">>
S_intern      == <<"i","n","t","e","r","n">>
S_vendor      == <<"v","e","n","d","o","r">>
S_fte         == <<"f","t","e">>
S_part_time   == <<"p","a","r","t","-","t","i","m","e">>
S_true        == <<"t","r","u","e">>
S_false       == <<"f","a","l","s","e">>
S_yes         == <<"y","e","s">>
S_no          == <<"n","o">>
S_1           == <<"1">>
S_0           == <<"0">>

\* the keys of common_fields
CommonFieldNames ==
    {"user_id", "email", "first_name", "last_name", "department", "role",
     "title", "manager", "location", "last_login", "created_date", "end_date",
     "status", "type", "two_factor", "user_type", "privileged", "sso", "paid"}

\* common_fields[field]: the type of a field ("enum" for a list of literals)
FieldType(f) ==
    CASE f \in {"user_id", "department", "role", "title", "location"} -> "str"
      [] f \in {"email", "manager"} -> "email"
      [] f \in {"first_name", "last_name"} -> "name"
      [] f \in {"last_login", "created_date", "end_date"} -> "date"
      [] f \in {"status", "type", "user_type"} -> "enum"
      [] f \in {"two_factor", "privileged", "sso", "paid"} -> "bool"

\* common_fields[field] when it is a list: the declared literals
EnumValues(f) ==
    CASE f = "status" ->
           {S_active, S_inactive, S_suspended, S_deactivated, S_deleted, S_unknown}
      [] f = "type" ->
           {S_employee, S_contractor, S_intern, S_vendor, S_unknown}
      [] f = "user_type" ->
           {S_fte, S_part_time, S_contractor, S_vendor, S_unknown}
      [] OTHER -> {}

\* the keys of default_values
DefaultFieldNames == {"status", "paid"}

\* default_values[field]
DefaultValue(f) == IF f = "status" THEN VStr(S_active) ELSE VBool(TRUE)

----------------------------------------------------------------------------
(* dateutil.parser.parse on the timestamp forms of the model's calendar    *)
(* (January 1970):  1970-01-DD, 1970-01-DDTHH:00:00, the same followed by  *)
(* Z, or by +HH:00 / -HH:00.  Any other text is not a date (ValueError).   *)

DateFail == [ok |-> FALSE, v |-> VNone]

IsDigits(s, i, j) == \A x \in i..j : s[x] \in DigitChars

Num2(s, i) == 10 * DigitVal(s[i]) + DigitVal(s[i+1])

ParseDate(s) ==
    LET n == Len(s)
        dayOk == /\ SubSeq(s, 1, 8) = <<"1","9","7","0","-","0","1","-">>
                 /\ IsDigits(s, 9, 10)
                 /\ Num2(s, 9) \in 1..31
        timeOk == /\ s[11] = "T"
                  /\ IsDigits(s, 12, 13)
                  /\ Num2(s, 12) \in 0..23
                  /\ SubSeq(s, 14, 19) = <<":","0","0",":","0","0">>
        wall == (Num2(s, 9) - 1) * HoursPerDay + (IF n = 10 THEN 0 ELSE Num2(s, 12))
    IN  IF n \notin {10, 19, 20, 25} THEN DateFail
        ELSE IF ~dayOk THEN DateFail
        ELSE IF n = 10 THEN [ok |-> TRUE, v |-> VDate(wall, FALSE, 0)]
        ELSE IF ~timeOk THEN DateFail
        ELSE IF n = 19 THEN [ok |-> TRUE, v |-> VDate(wall, FALSE, 0)]
        ELSE IF n = 20 THEN
            IF s[20] = "Z" THEN [ok |-> TRUE, v |-> VDate(wall, TRUE, 0)]
            ELSE DateFail
        ELSE IF /\ s[20] \in {"+", "-"}
                /\ IsDigits(s, 21, 22)
                /\ Num2(s, 21) \in 0..23
                /\ SubSeq(s, 23, 25) = <<":","0","0">>
             THEN [ok |-> TRUE,
                   v |-> VDate(wall, TRUE,
                               IF s[20] = "+" THEN Num2(s, 21) ELSE 0 - Num2(s, 21))]
             ELSE DateFail

----------------------------------------------------------------------------
(* DataSource.conform: coerce a raw cell to the canonical type of a field. *)
(* The result is [ok, v, cause]; ok = FALSE is the ValueError.             *)

ConformFail(cause) == [ok |-> FALSE, v |-> VNone, cause |-> cause]

ConformOk(v) == [ok |-> TRUE, v |-> v, cause |-> "none"]

\* faulty variant of EnumAllowed: the literals are compared ignoring case
EnumAllowedAnyCase(value, field) == Lower(value) \in EnumValues(field)

\* "value in common_fields[field]"
EnumAllowed(value, field) == value \in EnumValues(field)

Conform(value, field) ==
    IF field \notin CommonFieldNames THEN ConformFail("field")
    ELSE IF FieldType(field) = "enum" THEN
        IF ~EnumAllowed(value, field) THEN ConformFail("enum")
        ELSE ConformOk(VStr(value))
    ELSE IF FieldType(field) = "date" THEN
        IF value = <<>> THEN ConformOk(NEVER_LOGGED_IN)
        ELSE IF ParseDate(value).ok THEN ConformOk(ParseDate(value).v)
        ELSE ConformFail("date")
    ELSE IF FieldType(field) = "name" THEN ConformOk(VStr(Lower(value)))
    ELSE IF FieldType(field) = "bool" THEN
        IF Lower(value) \in {S_true, S_false} THEN ConformOk(VBool(Lower(value) = S_true))
        ELSE IF Lower(value) \in {S_yes, S_no} THEN ConformOk(VBool(Lower(value) = S_yes))
        ELSE IF Lower(value) \in {S_1, S_0} THEN ConformOk(VBool(Lower(value) = S_1))
        ELSE ConformFail("bool")
    ELSE ConformOk(VStr(value))

----------------------------------------------------------------------------
(* DataSource.load_csv.  A file is a sequence of lines, a line a sequence  *)
(* of cells.  A mapping is the ordered list of (field k, column v) items   *)
(* of the mapping dict; rewrite maps a field to its ordered list of rules  *)
(* [dst, src, null] (null: the pattern is None).  users is the dict the    *)
(* load builds, in insertion order: a sequence of [key, rec].              *)

\* lines[skip_first_rows:] and lines[:-skip_last_rows]
SkipRows(lines, first, last) ==
    LET a == IF first > 0 THEN SubSeq(lines, first + 1, Len(lines)) ELSE lines
    IN  IF last > 0 THEN SubSeq(a, 1, Len(a) - last) ELSE a

\* csv.DictReader: the rows after the header line, blank lines skipped
RECURSIVE DataRows(_, _)
DataRows(lines, i) ==
    IF i > Len(lines) THEN <<>>
    ELSE IF lines[i] = <<>> THEN DataRows(lines, i + 1)
    ELSE <<lines[i]>> \o DataRows(lines, i + 1)

\* row.get(col) on dict(zip(fieldnames, cells)), restval None:
\* [none |-> TRUE] when the column is not a header or the row is too short
RowGet(fieldnames, cells, col) ==
    LET idx == {i \in 1..Len(fieldnames) : fieldnames[i] = col}
    IN  IF idx = {} \/ SetMax(idx) > Len(cells) THEN [none |-> TRUE, s |-> <<>>]
        ELSE [none |-> FALSE, s |-> cells[SetMax(idx)]]

\* the first header regex.match(v, header) accepts, or v itself when none does
ResolveColumn(v, fieldnames) ==
    LET hit == {i \in 1..Len(fieldnames) : RegexMatch(v, fieldnames[i]).ok}
    IN  IF hit = {} THEN v ELSE fieldnames[SetMin(hit)]

\* the loop that replaces every mapping value by the header it matches
ResolveMapping(mapping, fieldnames) ==
    [i \in 1..Len(mapping) |->
        [k |-> mapping[i].k, v |-> ResolveColumn(mapping[i].v, fieldnames)]]

\* has_field / "k in self.mapping"
HasKey(mapping, f) == \E i \in 1..Len(mapping) : mapping[i].k = f

\* faulty variant of RewriteExpand: the replacement text is installed as written
RewriteExpandLiteral(dst, groups) == [ok |-> TRUE, s |-> dst]

\* the replacement installed by a rule whose pattern matched: match.expand(dst)
RewriteExpand(dst, groups) == Expand(dst, groups)

\* faulty variant of RewriteFrom: every rule that applies is installed in
\* turn, each on the text the rules before it left
RECURSIVE RewriteCascade(_, _, _)
RewriteCascade(rules, i, value) ==
    IF i > Len(rules) THEN [ok |-> TRUE, s |-> value]
    ELSE IF rules[i].null /\ value = <<>> THEN RewriteCascade(rules, i + 1, rules[i].dst)
    ELSE IF rules[i].null THEN RewriteCascade(rules, i + 1, value)
    ELSE IF RegexMatch(rules[i].src, value).ok
              /\ Expand(rules[i].dst, RegexMatch(rules[i].src, value).groups).ok
         THEN RewriteCascade(rules, i + 1,
                             Expand(rules[i].dst, RegexMatch(rules[i].src, value).groups).s)
         ELSE RewriteCascade(rules, i + 1, value)

\* the rewrite loop of one cell: the first rule that applies is installed
RECURSIVE RewriteFrom(_, _, _)
RewriteFrom(rules, i, value) ==
    IF i > Len(rules) THEN [ok |-> TRUE, s |-> value]
    ELSE IF rules[i].null /\ value = <<>> THEN [ok |-> TRUE, s |-> rules[i].dst]
    ELSE IF rules[i].null THEN RewriteFrom(rules, i + 1, value)
    ELSE IF RegexMatch(rules[i].src, value).ok
         THEN RewriteExpand(rules[i].dst, RegexMatch(rules[i].src, value).groups)
         ELSE RewriteFrom(rules, i + 1, value)

Rewrite(rewrite, k, value) ==
    IF k \in DOMAIN rewrite THEN RewriteFrom(rewrite[k], 1, value)
    ELSE [ok |-> TRUE, s |-> value]

EmptyLine == [f \in {} |-> VNone]

\* the mapped fields of one row: fetch, rewrite, conform, in mapping order
RECURSIVE ProcessRow(_, _, _, _, _, _)
ProcessRow(fieldnames, cells, mapping, rewrite, i, line) ==
    IF i > Len(mapping) THEN [ok |-> TRUE, line |-> line, cause |-> "none"]
    ELSE
        LET k   == mapping[i].k
            raw == RowGet(fieldnames, cells, mapping[i].v)
        IN  IF raw.none THEN [ok |-> FALSE, line |-> line, cause |-> "column"]
            ELSE
              LET rw == Rewrite(rewrite, k, raw.s)
              IN  IF ~rw.ok THEN [ok |-> FALSE, line |-> line, cause |-> "expand"]
                  ELSE
                    LET c == Conform(rw.s, k)
                    IN  IF ~c.ok THEN [ok |-> FALSE, line |-> line, cause |-> c.cause]
                        ELSE ProcessRow(fieldnames, cells, mapping, rewrite, i + 1,
                                        (k :> c.v) @@ line)

DictKeys(data) == {data[i].key : i \in 1..Len(data)}

\* data[key] = rec
DictPut(data, key, rec) ==
    IF key \in DictKeys(data)
    THEN [i \in 1..Len(data) |->
             IF data[i].key = key THEN [key |-> key, rec |-> rec] ELSE data[i]]
    ELSE Append(data, [key |-> key, rec |-> rec])

\* data[key]
DictGet(data, key) == data[CHOOSE i \in 1..Len(data) : data[i].key = key].rec

\* faulty variant of IsDuplicate: the check is missing
NoDuplicateCheck(uid, data) == FALSE

\* "line['user_id'] in data"
IsDuplicate(uid, data) == uid \in DictKeys(data)

\* default values, then None, for the fields the row did not set
\* faulty variant of FillRecord: no default values
FillRecordNoDefaults(line) ==
    [f \in CommonFieldNames \cup DOMAIN line |->
        IF f \in DOMAIN line THEN line[f] ELSE VNone]

\* faulty variant of FillRecord: the fields a row does not set hold the
\* empty text
FillRecordEmptyText(line) ==
    [f \in CommonFieldNames \cup DOMAIN line |->
        IF f \in DOMAIN line THEN line[f]
        ELSE IF f \in DefaultFieldNames THEN DefaultValue(f)
        ELSE VStr(<<>>)]

FillRecord(line) ==
    [f \in CommonFieldNames \cup DOMAIN line |->
        IF f \in DOMAIN line THEN line[f]
        ELSE IF f \in DefaultFieldNames THEN DefaultValue(f)
        ELSE VNone]

RECURSIVE LoadRows(_, _, _, _, _, _)
LoadRows(fieldnames, rows, mapping, rewrite, i, data) ==
    IF i > Len(rows) THEN [ok |-> TRUE, data |-> data, cause |-> "none"]
    ELSE
        LET r == ProcessRow(fieldnames, rows[i], mapping, rewrite, 1, EmptyLine)
        IN  IF ~r.ok THEN [ok |-> FALSE, data |-> <<>>, cause |-> r.cause]
            ELSE IF "user_id" \notin DOMAIN r.line
                 THEN [ok |-> FALSE, data |-> <<>>, cause |-> "user_id"]
            ELSE IF IsDuplicate(r.line["user_id"].s, data)
                 THEN [ok |-> FALSE, data |-> <<>>, cause |-> "duplicate"]
            ELSE LoadRows(fieldnames, rows, mapping, rewrite, i + 1,
                          DictPut(data, r.line["user_id"].s, FillRecord(r.line)))

\* load_csv: [ok, data, mapping (as left in self.mapping), cause]
LoadResolved(fieldnames, rows, resolved, rewrite) ==
    [mapping |-> resolved] @@ LoadRows(fieldnames, rows, resolved, rewrite, 1, <<>>)

\* the lines kept after skipping: the first is the header, the rest are rows
LoadKept(kept, mapping, rewrite) ==
    IF kept = <<>>
    THEN [ok |-> FALSE, data |-> <<>>, mapping |-> mapping, cause |-> "header"]
    ELSE LoadResolved(kept[1], DataRows(kept, 2), ResolveMapping(mapping, kept[1]),
                      rewrite)

\* faulty variant of WrapCsv: the exception leaves load_csv as it was raised
NotWrapped(r) == [file |-> "none"] @@ r

\* the except clause of load_csv: whatever was raised becomes an error that
\* names the data file and carries the cause
WrapCsv(r) ==
    IF r.ok THEN [file |-> "none"] @@ r ELSE [file |-> "csv"] @@ r

LoadCsv(lines, mapping, rewrite, options) ==
    WrapCsv(LoadKept(SkipRows(lines, options.skip_first_rows, options.skip_last_rows),
                     mapping, rewrite))

----------------------------------------------------------------------------
(* State *)

\* the two DataSource objects of a run
Sources == {"truth", "compare"}

VARIABLES
    csvFile,    \* per source: the data file on disk (lines of cells)
    yamlFile,   \* per source: the mapping file on disk [name, mapping, rewrite, options]
    config,     \* the run's configuration [disable, domains]
    rules,      \* DynamicAnalysis.rules [exceptions, validation]
    now,        \* the clock: hours since 1970-01-01T00:00 UTC
    name,       \* per source: self.name (<<>> before load)
    mapping,    \* per source: self.mapping (<<>> before load)
    rewrite,    \* per source: self.rewrite
    users,      \* per source: self.users
    managers,   \* per source: self.managers
    findings,   \* per source: self.findings, user_id -> list of bound findings
    loaded,     \* per source: "new", "ok" (load returned) or "failed" (load raised)
    loads,      \* per source: number of load calls made
    ops,        \* number of validate / compare calls made
    last,       \* the last call: [op, src, ok, cause, rule], with file for a
                \* load and ret for a call that returns a value
    prev        \* findings (of every source) when the last call started

vars == <<csvFile, yamlFile, config, rules, now, name, mapping, rewrite, users,
          managers, findings, loaded, loads, ops, last, prev>>

envVars == <<csvFile, yamlFile, config, rules, now>>

\* most load calls per source
MaxLoads == 2

\* most data rows in a generated file
MaxRows == 2

NoFindings == [u \in {} |-> <<>>]

NoRule == [name |-> "none"]

\* DataSource.__init__ for both sources, before any call
Constructed ==
    /\ name     = [s \in Sources |-> <<>>]
    /\ mapping  = [s \in Sources |-> <<>>]
    /\ rewrite  = [s \in Sources |-> [f \in {} |-> <<>>]]
    /\ users    = [s \in Sources |-> <<>>]
    /\ managers = [s \in Sources |-> <<>>]
    /\ findings = [s \in Sources |-> NoFindings]
    /\ loaded   = [s \in Sources |-> "new"]
    /\ loads    = [s \in Sources |-> 0]
    /\ ops      = 0
    /\ last     = [op |-> "init", src |-> "none", ok |-> TRUE, cause |-> "none",
                   rule |-> NoRule]
    /\ prev     = [s \in Sources |-> NoFindings]

----------------------------------------------------------------------------
(* DataSource.load *)

\* faulty variant of LoadMapping: a mapping already resolved by an earlier
\* load is kept
KeepStoredMapping(stored, fromYaml) == IF stored # <<>> THEN stored ELSE fromYaml

\* self.mapping = config.get('mapping', {})
LoadMapping(stored, fromYaml) == fromYaml

\* the managers index: every manager reference that resolves to a record
RECURSIVE ManagersFrom(_, _, _)
ManagersFrom(data, i, acc) ==
    IF i > Len(data) THEN acc
    ELSE
        LET m == data[i].rec["manager"]
        IN  IF m.k = "str" /\ m.s # <<>> /\ m.s \notin DictKeys(acc)
               /\ m.s \in DictKeys(data)
            THEN ManagersFrom(data, i + 1, DictPut(acc, m.s, DictGet(data, m.s)))
            ELSE ManagersFrom(data, i + 1, acc)

\* load up to the return or the raise: the mapping check, then load_csv
LoadOutcome(m0, y, lines) ==
    IF Len(m0) = 0
    THEN [ok |-> FALSE, data |-> <<>>, mapping |-> m0, cause |-> "mapping",
          file |-> "yaml"]
    ELSE LoadCsv(lines, m0, y.rewrite, y.options)

\* the fields load leaves behind, given the outcome r of its body
Loaded(s, y, r) ==
    /\ name'    = [name EXCEPT ![s] = y.name]
    /\ rewrite' = [rewrite EXCEPT ![s] = y.rewrite]
    /\ mapping' = [mapping EXCEPT ![s] = r.mapping]
    /\ last'    = [op |-> "load", src |-> s, ok |-> r.ok, cause |-> r.cause,
                   rule |-> NoRule, file |-> r.file]
    /\ IF r.ok
       THEN /\ users'    = [users EXCEPT ![s] = r.data]
            /\ managers' = [managers EXCEPT ![s] = ManagersFrom(r.data, 1, <<>>)]
            /\ loaded'   = [loaded EXCEPT ![s] = "ok"]
       ELSE /\ loaded' = [loaded EXCEPT ![s] = "failed"]
            /\ UNCHANGED <<users, managers>>

Load(s) ==
    /\ loads[s] < MaxLoads
    /\ Loaded(s, yamlFile[s],
              LoadOutcome(LoadMapping(mapping[s], yamlFile[s].mapping), yamlFile[s],
                          csvFile[s]))
    /\ loads' = [loads EXCEPT ![s] = @ + 1]
    /\ prev'  = findings
    /\ UNCHANGED <<findings, ops>>
    /\ UNCHANGED envVars

----------------------------------------------------------------------------
(* Queries of a source *)

\* DataSource.has_field
HasField(s, f) == HasKey(mapping[s], f)

\* faulty variant of HasDateValue: no sentinel test at all
HasDateValueAlways(v) == v.k = "date"

\* ValidationHelper.has_date_value: the sentinel's wall clock is re-read in
\* the value's own timezone (or as naive) and compared with the value
HasDateValue(v) ==
    IF v.k # "date" THEN FALSE
    ELSE ~DateEq(v, VDate(NEVER_LOGGED_IN.wall, v.aware, v.off))

\* DataSource.has_logged_in
HasLoggedIn(s, rec) ==
    IF ~HasField(s, "last_login") THEN TRUE
    ELSE HasDateValue(rec["last_login"])

----------------------------------------------------------------------------
(* Findings: models/findings.py and DataSource.add_finding.  A template   *)
(* is [key, severity, description]; the description is the list of its     *)
(* parts, literal text Lit(t) and placeholders Ph(n).  A bound finding is  *)
(* [key, severity, description, params, message]: params is the list of    *)
(* keyword arguments [n, v] it was instantiated with, message the          *)
(* formatted message, the list of rendered pieces, [lit |-> text] or       *)
(* [s |-> characters of a formatted argument].                             *)

DigitChar(d) == <<"0","1","2","3","4","5","6","7","8","9">>[d + 1]

RECURSIVE Digits(_)
Digits(n) == IF n < 10 THEN <<DigitChar(n)>>
             ELSE Digits(n \div 10) \o <<DigitChar(n % 10)>>

Two(n) == <<DigitChar(n \div 10), DigitChar(n % 10)>>

\* str(datetime) of a January 1970 value: 1970-01-DD HH:00:00[+HH:00]
DateStr(v) ==
    <<"1","9","7","0","-","0","1","-">> \o Two(v.wall \div HoursPerDay + 1)
        \o <<" ">> \o Two(v.wall % HoursPerDay) \o <<":","0","0",":","0","0">>
        \o (IF ~v.aware THEN <<>>
            ELSE IF v.off < 0 THEN <<"-">> \o Two(-v.off) \o <<":","0","0">>
            ELSE <<"+">> \o Two(v.off) \o <<":","0","0">>)

\* str(value)
ToStr(v) ==
    CASE v.k = "str"  -> v.s
      [] v.k = "bool" -> IF v.b THEN <<"T","r","u","e">> ELSE <<"F","a","l","s","e">>
      [] v.k = "int"  -> IF v.n < 0 THEN <<"-">> \o Digits(-v.n) ELSE Digits(v.n)
      [] v.k = "date" -> DateStr(v)
      [] OTHER        -> <<"N","o","n","e">>

\* a member of the Severity enum
Severity(v) == [enum |-> v]

\* the severity of a built-in FindingType template
FindingSeverity(key) ==
    CASE key \in {"ACCESS_PRIVILEGED", "STATUS_MATCH"} -> Severity("compliance")
      [] key \in {"ACCESS_EXTRA", "DEPT_MISMATCH", "LOGIN_NEVER", "LOGIN_NEVER_AGED",
                  "LOCATION_MISMATCH", "MANAGER_MISSING", "FIRST_NAME_MISMATCH",
                  "LAST_NAME_MISMATCH", "TITLE_INVALID", "TITLE_MISMATCH",
                  "TITLE_MISSING"} -> Severity("warning")
      [] key = "DOCUMENTED_EXCEPTION" -> Severity("notice")
      [] OTHER -> Severity("error")

Lit(t) == [lit |-> TRUE, t |-> t]

Ph(n) == [lit |-> FALSE, t |-> n]

\* a description with one placeholder between two texts
Desc1(a, n, b) == <<Lit(a), Ph(n), Lit(b)>>

\* a description with two placeholders
Desc2(a, n, b, m, c) == <<Lit(a), Ph(n), Lit(b), Ph(m), Lit(c)>>

\* the description of a built-in FindingType template
FindingDescription(key) ==
    CASE key = "ACCESS_EXTRA" ->
            Desc1("Has access in comparison that is not in source of truth (", "access", ")")
      [] key = "ACCESS_INVALID" -> Desc1("Invalid access: \"", "access", "\"")
      [] key = "ACCESS_MISSING" -> <<Lit("No access")>>
      [] key = "ACCESS_PRIVILEGED" -> <<Lit("Privileged access")>>
      [] key = "DEPT_INVALID" ->
            Desc1("Invalid or unexpected department: \"", "department", "\"")
      [] key = "DEPT_MISMATCH" ->
            Desc2("Department does not match between sources (source: \"", "source_dept",
                  "\", compare: \"", "compare_dept", "\")")
      [] key = "DEPT_MISSING" -> <<Lit("Missing department")>>
      [] key = "DOMAIN_INVALID" ->
            Desc1("Email domain is not approved (domain: \"", "domain", "\")")
      [] key = "DOMAIN_MISMATCH" ->
            Desc2("Email domain does not match (source \"", "domain",
                  "\", compare: \"", "compare_domain", "\")")
      [] key = "EMAIL_INVALID" -> <<Lit("Invalid email address: "), Ph("email")>>
      [] key = "EMAIL_MISMATCH" ->
            Desc2("Email does not match between sources (source: \"", "source_email",
                  "\", compare: \"", "compare_email", "\")")
      [] key = "EMAIL_MISSING" -> <<Lit("No email address")>>
      [] key = "DOCUMENTED_EXCEPTION" -> <<Ph("reason")>>
      [] key = "LOGIN_NEVER" -> <<Lit("Never logged in")>>
      [] key = "LOGIN_NEVER_AGED" ->
            Desc1("User has never logged in and is ", "age", " days old")
      [] key = "LOCATION_INVALID" -> Desc1("Invalid location: \"", "location", "\"")
      [] key = "LOCATION_MISMATCH" ->
            Desc2("Location does not match between sources (source: \"",
                  "source_location", "\", compare: \"", "compare_location", "\")")
      [] key = "LOCATION_MISSING" -> <<Lit("No location")>>
      [] key = "MANAGER_INACTIVE" ->
            Desc1("Manager \"", "manager", "\" is not active, but user is")
      [] key = "MANAGER_INVALID" ->
            Desc1("Manager \"", "manager", "\" not found in user list")
      [] key = "MANAGER_MISSING" -> <<Lit("No manager")>>
      [] key = "FIRST_NAME_INVALID" -> Desc1("Invalid first name: \"", "name", "\"")
      [] key = "FIRST_NAME_MISMATCH" ->
            Desc2("First name does not match between sources (source: \"", "source_name",
                  "\", compare: \"", "compare_name", "\")")
      [] key = "FIRST_NAME_MISSING" -> <<Lit("No first name found")>>
      [] key = "LAST_NAME_INVALID" -> Desc1("Invalid last name: \"", "name", "\"")
      [] key = "LAST_NAME_MISMATCH" ->
            Desc2("Last name does not match between sources (source: \"", "source_name",
                  "\", compare: \"", "compare_name", "\")")
      [] key = "LAST_NAME_MISSING" -> <<Lit("No last name found")>>
      [] key = "COMPARE_MISSING" -> <<Lit("Does not exist in the comparison data")>>
      [] key = "SOURCE_MISSING" -> <<Lit("Not found in source of truth")>>
      [] key = "SOURCE_MISSING_ACTIVE" ->
            <<Lit("Not found in source of truth and is active")>>
      [] key = "SOURCE_MISSING_DELETED" ->
            <<Lit("Not found in source of truth and is deleted")>>
      [] key = "SOURCE_MISSING_INACTIVE" ->
            <<Lit("Not found in source of truth and is inactive")>>
      [] key = "SOURCE_MISSING_SUSPENDED" ->
            <<Lit("Not found in source of truth and is suspended")>>
      [] key = "SOURCE_MISSING_DEACTIVATED" ->
            <<Lit("Not found in source of truth and is deactivated")>>
      [] key = "SOURCE_MISSING_UNKNOWN" ->
            <<Lit("Not found in source of truth and status is unknown")>>
      [] key = "COMPARE_ACTIVE_SOURCE_DEACTIVATED" ->
            <<Lit("Source is deactivated but compare is active")>>
      [] key = "COMPARE_ACTIVE_SOURCE_INACTIVE" ->
            <<Lit("Source is inactive but compare is active")>>
      [] key = "COMPARE_ACTIVE_SOURCE_SUSPENDED" ->
            <<Lit("Source is suspended but compare is active")>>
      [] key = "COMPARE_ACTIVE_SOURCE_DELETED" ->
            <<Lit("Source is deleted but compare is active")>>
      [] key = "COMPARE_ACTIVE_SOURCE_UNKNOWN" ->
            <<Lit("Source is unknown but compare is active")>>
      [] key = "STATUS_MISMATCH" ->
            Desc2("Status does not match between sources (source: \"", "source_status",
                  "\", compare: \"", "compare_status", "\")")
      [] key = "STATUS_MATCH" ->
            Desc2("Status matches between sources (source: \"", "source_status",
                  "\", compare: \"", "compare_status", "\")")
      [] key = "TITLE_INVALID" -> <<Lit("Invalid title: "), Ph("title")>>
      [] key = "TITLE_MISMATCH" ->
            Desc2("Title does not match between sources (source: \"", "source_title",
                  "\", compare: \"", "compare_title", "\")")
      [] OTHER -> <<Lit("No title")>>

\* a FindingType template
FindingType(key) ==
    [key |-> key, severity |-> FindingSeverity(key),
     description |-> FindingDescription(key)]

Param(n, v) == [n |-> n, v |-> v]

\* the marker of a missing parameter
NA == <<"#","#","N","/","A","#","#">>

ParamNames(params) == {params[i].n : i \in 1..Len(params)}

\* the placeholders of a description that params does not supply, by position
MissingAt(description, params) ==
    {i \in 1..Len(description) :
        ~description[i].lit /\ description[i].t \notin ParamNames(params)}

\* the formatted argument n: the last one of that name wins
ParamStr(params, n) ==
    ToStr(params[SetMax({i \in 1..Len(params) : params[i].n = n})].v)

\* str.format(**params) of a description whose placeholders are all supplied
Render(description, params) ==
    [i \in 1..Len(description) |->
        IF description[i].lit THEN [lit |-> description[i].t]
        ELSE [s |-> ParamStr(params, description[i].t)]]

\* the except branch of Finding.__call__: the first missing parameter is
\* added as the marker and the description is formatted once more
FormatAgain(description, params) ==
    IF MissingAt(description, params) # {}
    THEN [ok |-> FALSE, message |-> <<>>]
    ELSE [ok |-> TRUE, message |-> Render(description, params)]

\* Finding.__call__: [ok, message]; ok = FALSE when it raises KeyError
Format(description, params) ==
    IF MissingAt(description, params) = {}
    THEN [ok |-> TRUE, message |-> Render(description, params)]
    ELSE FormatAgain(description,
                     Append(params,
                            Param(description[SetMin(MissingAt(description, params))].t,
                                  VStr(NA))))

\* the bound instance of a template (when Finding.__call__ returns)
Bind(template, params) ==
    [key |-> template.key, severity |-> template.severity,
     description |-> template.description, params |-> params,
     message |-> Format(template.description, params).message]

\* a rendered piece holds no character
EmptyPiece(p) ==
    IF "lit" \in DOMAIN p THEN p.lit = "" ELSE p.s = <<>>

\* Finding.message: the formatted message when it is a non-empty string,
\* else the description as written, placeholders included
Message(f) ==
    IF \A i \in 1..Len(f.message) : EmptyPiece(f.message[i])
    THEN [formatted |-> FALSE, text |-> f.description]
    ELSE [formatted |-> TRUE, text |-> f.message]

\* faulty variant of AddFinding: a new finding replaces the user's list
AddFindingReplace(fs, uid, template, params) ==
    IF template.key \in config.disable THEN fs
    ELSE (uid :> <<Bind(template, params)>>) @@ fs

\* DataSource.add_finding on the findings dict fs of a source
AddFinding(fs, uid, template, params) ==
    IF template.key \in config.disable THEN fs
    ELSE IF uid \in DOMAIN fs
         THEN [fs EXCEPT ![uid] = Append(@, Bind(template, params))]
         ELSE (uid :> <<Bind(template, params)>>) @@ fs

\* add_finding raises: the finding is enabled and its instantiation raises
AddFindingRaises(template, params) ==
    template.key \notin config.disable /\ ~Format(template.description, params).ok

\* the findings dict after add_finding raised: the user's list was created
\* before the instantiation
AddFindingAborted(fs, uid) ==
    IF uid \in DOMAIN fs THEN fs ELSE (uid :> <<>>) @@ fs

----------------------------------------------------------------------------
(* ValidationHelper *)

AlphaChars == UpperChars \cup LowerChars

\* ValidationHelper.is_valid_name
IsValidName(s) ==
    /\ s # <<>>
    /\ s[1] \in AlphaChars
    /\ \A i \in 1..Len(s) :
          s[i] \in AlphaChars \cup {" "} \cup DigitChars
                      \cup {"-", ".", ",", "'", "(", ")"}

\* ValidationHelper.is_valid_email: regex.match(r'[^@]+@[^@]+\.[^@]+', value)
IsValidEmail(s) ==
    /\ s # <<>>
    /\ \E i, j \in 1..Len(s) :
          /\ i >= 2 /\ s[i] = "@"
          /\ \A x \in 1..(i - 1) : s[x] # "@"
          /\ j >= i + 2 /\ s[j] = "."
          /\ \A x \in (i + 1)..(j - 1) : s[x] # "@"
          /\ j + 1 <= Len(s) /\ s[j + 1] # "@"

----------------------------------------------------------------------------
(* DynamicAnalysis.compare.  An exception is                               *)
(* [hasOnly, only, hasSkip, skip, field, pattern, reason].  A step of the  *)
(* handler gives [ok, fs]: ok = FALSE when the statement raised, fs the    *)
(* compare source's findings at that point.                                *)

\* dict.get(field) on a record
RecGet(rec, f) == IF f \in DOMAIN rec THEN rec[f] ELSE VNone

\* the status-specific finding of a user missing from the source of truth
MissingFinding(status) ==
    IF status = VStr(S_active) THEN "SOURCE_MISSING_ACTIVE"
    ELSE IF status = VStr(S_inactive) THEN "SOURCE_MISSING_INACTIVE"
    ELSE IF status = VStr(S_suspended) THEN "SOURCE_MISSING_SUSPENDED"
    ELSE IF status = VStr(S_deleted) THEN "SOURCE_MISSING_DELETED"
    ELSE IF status = VStr(S_unknown) THEN "SOURCE_MISSING_UNKNOWN"
    ELSE "SOURCE_MISSING"

\* the exception applies to the compare source
ExceptionApplies(e, cmpName) ==
    /\ ~(e.hasOnly /\ cmpName \notin e.only)
    /\ ~(e.hasSkip /\ cmpName \in e.skip)

\* the for/else over the exceptions, for a user absent from the source of truth
RECURSIVE ExceptionsFrom(_, _, _, _, _)
ExceptionsFrom(exceptions, i, fs, uid, rec) ==
    IF i > Len(exceptions)
    THEN [ok |-> TRUE,
          fs |-> AddFinding(fs, uid, FindingType(MissingFinding(RecGet(rec, "status"))), <<>>)]
    ELSE IF ~ExceptionApplies(exceptions[i], name["compare"])
    THEN ExceptionsFrom(exceptions, i + 1, fs, uid, rec)
    ELSE IF RecGet(rec, exceptions[i].field).k # "str"
    THEN [ok |-> FALSE, fs |-> fs]
    ELSE IF RegexMatch(exceptions[i].pattern, RecGet(rec, exceptions[i].field).s).ok
    THEN [ok |-> TRUE,
          fs |-> AddFinding(fs, uid, FindingType("DOCUMENTED_EXCEPTION"),
                            <<Param("reason", VStr(exceptions[i].reason))>>)]
    ELSE ExceptionsFrom(exceptions, i + 1, fs, uid, rec)

\* field_supported
FieldSupported(f) == HasField("truth", f) /\ HasField("compare", f)

\* field_only_in_compare
FieldOnlyInCompare(f) == ~HasField("truth", f) /\ HasField("compare", f)

\* fields_differ
FieldsDiffer(srec, crec, f) ==
    IF ~FieldSupported(f) THEN FALSE
    ELSE ~ValEq(RecGet(srec, f), RecGet(crec, f))

\* "if fields_differ(f): add the _MISMATCH finding"
Mismatch(fs, uid, srec, crec, f, key, sname, cname) ==
    IF FieldsDiffer(srec, crec, f)
    THEN AddFinding(fs, uid, FindingType(key),
                    <<Param(sname, RecGet(srec, f)), Param(cname, RecGet(crec, f))>>)
    ELSE fs

\* the mismatch, else missing / invalid, check of first_name and last_name
NameCheck(fs, uid, srec, crec, f, mismatch, missing, invalid) ==
    IF FieldsDiffer(srec, crec, f)
    THEN AddFinding(fs, uid, FindingType(mismatch),
                    <<Param("source_name", RecGet(srec, f)),
                      Param("compare_name", RecGet(crec, f))>>)
    ELSE IF FieldOnlyInCompare(f)
    THEN IF RecGet(crec, f) = VStr(<<>>)
         THEN AddFinding(fs, uid, FindingType(missing), <<>>)
         ELSE IF ~IsValidName(RecGet(crec, f).s)
         THEN AddFinding(fs, uid, FindingType(invalid), <<Param("name", RecGet(crec, f))>>)
         ELSE fs
    ELSE fs

\* the mismatch, else missing / invalid, check of email
EmailCheck(fs, uid, srec, crec) ==
    IF FieldsDiffer(srec, crec, "email")
    THEN AddFinding(fs, uid, FindingType("EMAIL_MISMATCH"),
                    <<Param("source_email", RecGet(srec, "email")),
                      Param("compare_email", RecGet(crec, "email"))>>)
    ELSE IF FieldOnlyInCompare("email")
    THEN IF RecGet(crec, "email") = VStr(<<>>)
         THEN AddFinding(fs, uid, FindingType("EMAIL_MISSING"), <<>>)
         ELSE IF ~IsValidEmail(RecGet(crec, "email").s)
         THEN AddFinding(fs, uid, FindingType("EMAIL_INVALID"),
                         <<Param("email", RecGet(crec, "email"))>>)
         ELSE fs
    ELSE fs

\* faulty variant of EmailDomain: the text after the last @
EmailDomainLast(email) ==
    LET parts == Split(email, "@")
    IN  IF Len(parts) < 2 THEN [ok |-> FALSE, s |-> <<>>]
        ELSE [ok |-> TRUE, s |-> parts[Len(parts)]]

\* email.split('@')[1]: [ok, s], ok = FALSE is the IndexError
EmailDomain(email) ==
    LET parts == Split(email, "@")
    IN  IF Len(parts) < 2 THEN [ok |-> FALSE, s |-> <<>>]
        ELSE [ok |-> TRUE, s |-> parts[2]]

\* the checks before the domain comparison
BeforeDomain(fs, uid, srec, crec) ==
    EmailCheck(
        NameCheck(
            NameCheck(
                Mismatch(fs, uid, srec, crec, "status", "STATUS_MISMATCH",
                         "source_status", "compare_status"),
                uid, srec, crec, "first_name", "FIRST_NAME_MISMATCH",
                "FIRST_NAME_MISSING", "FIRST_NAME_INVALID"),
            uid, srec, crec, "last_name", "LAST_NAME_MISMATCH",
            "LAST_NAME_MISSING", "LAST_NAME_INVALID"),
        uid, srec, crec)

\* the comparison of the two domains sd and cd: [ok, fs]
DomainsDiffer(fs, uid, sd, cd) ==
    IF ~sd.ok \/ ~cd.ok THEN [ok |-> FALSE, fs |-> fs]
    ELSE IF sd.s # cd.s
    THEN [ok |-> TRUE,
          fs |-> AddFinding(fs, uid, FindingType("DOMAIN_MISMATCH"),
                            <<Param("domain", VStr(sd.s)),
                              Param("compare_domain", VStr(cd.s))>>)]
    ELSE [ok |-> TRUE, fs |-> fs]

\* the domain comparison of a user of both sources
DomainCheck(fs, uid, srec, crec) ==
    IF ~FieldSupported("email") THEN [ok |-> TRUE, fs |-> fs]
    ELSE DomainsDiffer(fs, uid, EmailDomain(RecGet(srec, "email").s),
                       EmailDomain(RecGet(crec, "email").s))

\* the checks after the domain comparison, given its outcome d
AfterDomain(d, uid, srec, crec) ==
    IF ~d.ok THEN d
    ELSE [ok |-> TRUE,
          fs |-> Mismatch(
                    Mismatch(
                        Mismatch(d.fs, uid, srec, crec, "department", "DEPT_MISMATCH",
                                 "source_dept", "compare_dept"),
                        uid, srec, crec, "location", "LOCATION_MISMATCH",
                        "source_location", "compare_location"),
                    uid, srec, crec, "title", "TITLE_MISMATCH",
                    "source_title", "compare_title")]

\* the checks of a user present in both sources
CompareBoth(fs, uid, srec, crec) ==
    AfterDomain(DomainCheck(BeforeDomain(fs, uid, srec, crec), uid, srec, crec),
                uid, srec, crec)

RECURSIVE CompareFrom(_, _)

\* the checks of one user of the compare source
CompareUser(fs, uid, crec) ==
    IF uid \notin DictKeys(users["truth"])
    THEN ExceptionsFrom(rules.exceptions, 1, fs, uid, crec)
    ELSE CompareBoth(fs, uid, DictGet(users["truth"], uid), crec)

\* the rest of the loop, given the outcome r of user i
CompareNext(i, r) == IF r.ok THEN CompareFrom(i + 1, r.fs) ELSE r

\* the loop over compare.users, stopped by the first statement that raises
CompareFrom(i, fs) ==
    IF i > Len(users["compare"]) THEN [ok |-> TRUE, fs |-> fs]
    ELSE CompareNext(i, CompareUser(fs, users["compare"][i].key,
                                    users["compare"][i].rec))

\* most validate / compare calls in a run
MaxOps == 2

\* faulty variant of Compared: the findings are recorded on both sources
ComparedOnBoth(r) ==
    /\ findings' = [s \in Sources |-> r.fs]
    /\ last' = [op |-> "compare", src |-> "compare", ok |-> r.ok,
                cause |-> IF r.ok THEN "none" ELSE "raised", rule |-> NoRule]

\* the findings compare leaves behind, given the outcome r of its loop
Compared(r) ==
    /\ findings' = [findings EXCEPT !["compare"] = r.fs]
    /\ last' = [op |-> "compare", src |-> "compare", ok |-> r.ok,
                cause |-> IF r.ok THEN "none" ELSE "raised", rule |-> NoRule]

\* DynamicAnalysis.compare(source = truth, compare = compare)
Compare ==
    /\ loaded["truth"] = "ok" /\ loaded["compare"] = "ok"
    /\ ops < MaxOps
    /\ Compared(CompareFrom(1, findings["compare"]))
    /\ prev' = findings
    /\ ops' = ops + 1
    /\ UNCHANGED <<name, mapping, rewrite, users, managers, loaded, loads>>
    /\ UNCHANGED envVars

----------------------------------------------------------------------------
(* Texts used by the generated inputs *)

S_empty   == <<>>
S_id      == <<"i","d">>
S_st      == <<"s","t">>
S_login   == <<"l","o","g","i","n">>
S_mail    == <<"m","a","i","l">>
S_mailbox == <<"m","a","i","l","b","o","x">>
S_u1      == <<"u","1">>
S_u2      == <<"u","2">>
S_Active  == <<"A","c","t","i","v","e">>
S_never   == <<"n","e","v","e","r">>
S_alice   == <<"a","l","i","c","e">>
S_oldco   == <<"o","l","d","c","o",".","c","o","m">>
S_newco   == <<"n","e","w","c","o",".","c","o","m">>
S_other   == <<"o","t","h","e","r",".","c","o","m">>

\* local@domain
At(local, domain) == local \o <<"@">> \o domain

\* the pattern ^(\w+)@oldco\.com$
P_oldco == <<"^","(","\\","w","+",")","@","o","l","d","c","o","\\",".","c","o","m","$">>

\* the replacement \1@newco.com
R_newco == <<"\\","1","@">> \o S_newco

\* the replacement \2@newco.com (a group the pattern does not have)
R_group2 == <<"\\","2","@">> \o S_newco

\* the pattern ^x-(\w+)$ and the replacement \1
P_xdash == <<"^","x","-","(","\\","w","+",")","$">>

R_group1 == <<"\\","1">>

S_x_active == <<"x","-">> \o S_active

S_x_bogus  == <<"x","-","b","o","g","u","s">>

\* the column patterns mail$ and m.*
P_mail_end == <<"m","a","i","l","$">>

P_m_any    == <<"m",".","*">>

\* timestamps 1970-01-DDTHH:00:00<suffix>
Iso(dd, hh, suffix) ==
    <<"1","9","7","0","-","0","1","-">> \o dd \o <<"T">> \o hh
        \o <<":","0","0",":","0","0">> \o suffix

T_epoch_utc   == Iso(<<"0","1">>, <<"0","0">>, <<"Z">>)
T_epoch_plus5 == Iso(<<"0","1">>, <<"0","0">>, <<"+","0","5",":","0","0">>)
T_five_plus5  == Iso(<<"0","1">>, <<"0","5">>, <<"+","0","5",":","0","0">>)
T_epoch_naive == Iso(<<"0","1">>, <<"0","0">>, <<>>)
T_day3_naive  == Iso(<<"0","3">>, <<"0","0">>, <<>>)
T_day2_utc    == Iso(<<"0","2">>, <<"0","0">>, <<"Z">>)
T_day2_minus3 == Iso(<<"0","2">>, <<"0","6">>, <<"-","0","3",":","0","0">>)

NoOptions == [skip_first_rows |-> 0, skip_last_rows |-> 0]

NoRewrite == [f \in {} |-> <<>>]

MapItem(k, v) == [k |-> k, v |-> v]

RuleItem(dst, src) == [dst |-> dst, src |-> src, null |-> FALSE]

NullRuleItem(dst) == [dst |-> dst, src |-> <<>>, null |-> TRUE]

\* every file with the given header and at most n data rows drawn from rowSet
FilesOf(header, rowSet, n) ==
    {<<header>> \o rows : rows \in UNION {[1..k -> rowSet] : k \in 0..n}}

----------------------------------------------------------------------------
(* Inputs of the normaliser: (mapping file, data file) pairs *)

\* enumerations and duplicate identifiers
LoadInputsEnum ==
    LET y == [name |-> <<"h","r">>,
              mapping |-> <<MapItem("user_id", S_id), MapItem("status", S_st)>>,
              rewrite |-> NoRewrite, options |-> NoOptions]
        rowSet == {<<i, st>> :
                      i \in {S_u1, S_u2},
                      st \in {S_active, S_suspended, S_Active, S_empty}}
    IN  {[yaml |-> y, csv |-> f] : f \in FilesOf(<<S_id, S_st>>, rowSet, MaxRows)}

\* dates
LoadInputsDates ==
    LET y == [name |-> <<"h","r">>,
              mapping |-> <<MapItem("user_id", S_id), MapItem("last_login", S_login)>>,
              rewrite |-> NoRewrite, options |-> NoOptions]
        rowSet == {<<i, d>> :
                      i \in {S_u1, S_u2},
                      d \in {S_empty, T_epoch_utc, T_epoch_plus5, T_five_plus5,
                             T_epoch_naive, T_day2_utc, S_never}}
    IN  {[yaml |-> y, csv |-> f] : f \in FilesOf(<<S_id, S_login>>, rowSet, MaxRows)}

\* rewrite rules
LoadInputsRewrite ==
    LET maps == <<MapItem("user_id", S_id), MapItem("email", S_mail),
                  MapItem("status", S_st)>>
        rws  == {("email" :> <<RuleItem(R_newco, P_oldco)>>),
                 ("email" :> <<NullRuleItem(At(S_alice, S_other)),
                               RuleItem(R_newco, P_oldco)>>)
                    @@ ("status" :> <<RuleItem(R_group1, P_xdash)>>),
                 ("email" :> <<RuleItem(R_group2, P_oldco)>>)}
        rowSet == {<<i, m, S_active>> :
                      i \in {S_u1, S_u2},
                      m \in {At(S_alice, S_oldco), At(S_alice, S_other), S_empty}}
                  \cup {<<i, At(S_alice, S_oldco), st>> :
                           i \in {S_u1, S_u2}, st \in {S_x_active, S_x_bogus}}
    IN  {[yaml |-> [name |-> <<"s","s","o">>, mapping |-> maps, rewrite |-> rw,
                    options |-> NoOptions],
          csv |-> f] :
            rw \in rws, f \in FilesOf(<<S_id, S_mail, S_st>>, rowSet, MaxRows)}

\* column patterns, short rows, skipped rows, unmapped identifier
LoadInputsColumns ==
    LET mapsSet == {<<MapItem("user_id", S_id), MapItem("email", v)>> :
                       v \in {S_mail, P_mail_end, P_m_any, S_login}}
                   \cup {<<MapItem("email", S_mail)>>, <<>>}
        rowSet == {<<S_u1, <<"b">>, <<"a">>>>, <<S_u2, <<"b">>, <<"c">>>>,
                   <<S_u2, <<"b">>>>, <<>>}
        opts == {NoOptions, [skip_first_rows |-> 1, skip_last_rows |-> 1]}
    IN  {[yaml |-> [name |-> <<"a","d">>, mapping |-> m, rewrite |-> NoRewrite,
                    options |-> o],
          csv |-> f] :
            m \in mapsSet, o \in opts,
            f \in FilesOf(<<S_id, S_mailbox, S_mail>>, rowSet, MaxRows)}

\* the patterns ^a and ^b
P_a == <<"^","a">>
P_b == <<"^","b">>

\* rule lists in which the text one rule installs is matched by a later one
ChainedRules ==
    {<<RuleItem(<<"b">>, P_a), NullRuleItem(<<"a">>), RuleItem(<<"c">>, P_b)>>,
     <<NullRuleItem(<<"a">>), RuleItem(<<"c">>, P_b), RuleItem(<<"b">>, P_a)>>,
     <<RuleItem(<<"c">>, P_b), RuleItem(<<"b">>, P_a)>>}

\* files with a free-text column rewritten by a list of chained rules
LoadInputsOrder ==
    {[yaml |-> [name |-> <<"a","d">>,
                mapping |-> <<MapItem("user_id", S_id), MapItem("department", S_st)>>,
                rewrite |-> ("department" :> rl), options |-> NoOptions],
      csv |-> f] :
        rl \in ChainedRules,
        f \in FilesOf(<<S_id, S_st>>,
                      {<<i, c>> : i \in {S_u1, S_u2}, c \in {<<"a">>, <<"b">>, S_empty, <<"z">>}},
                      MaxRows)}

S_paid  == <<"p","a","i","d">>
S_maybe == <<"m","a","y","b","e">>

\* files with a paid and a status column, mapped or not, and a mapping that
\* names a field the schema does not have
LoadInputsFields ==
    LET mapsSet == {<<MapItem("user_id", S_id)>>,
                    <<MapItem("user_id", S_id), MapItem("paid", S_paid)>>,
                    <<MapItem("user_id", S_id), MapItem("status", S_st),
                      MapItem("paid", S_paid)>>,
                    <<MapItem("user_id", S_id), MapItem("nickname", S_paid)>>}
        rowSet == {<<i, b, st>> : i \in {S_u1, S_u2},
                                  b \in {S_true, S_empty, <<"N","o">>, S_maybe},
                                  st \in {S_active}}
                  \cup {<<S_u1, S_true, S_empty>>, <<S_u1, S_0, S_suspended>>}
    IN  {[yaml |-> [name |-> <<"a","d">>, mapping |-> m, rewrite |-> NoRewrite,
                    options |-> NoOptions],
          csv |-> f] :
            m \in mapsSet, f \in FilesOf(<<S_id, S_paid, S_st>>, rowSet, MaxRows)}

LoadInputs ==
    LoadInputsEnum \cup LoadInputsDates \cup LoadInputsRewrite \cup LoadInputsColumns
        \cup LoadInputsFields \cup LoadInputsOrder

\* a source of truth that is not under test: one fixed, valid file
PlainInput ==
    [yaml |-> [name |-> <<"h","r">>,
               mapping |-> <<MapItem("user_id", S_id)>>,
               rewrite |-> NoRewrite, options |-> NoOptions],
     csv  |-> <<<<S_id>>, <<S_u1>>>>]

NoRules == [exceptions |-> <<>>, validation |-> <<>>]

NoConfig == [disable |-> {}, domains |-> {}]

----------------------------------------------------------------------------
(* The normaliser alone: any input of LoadInputs, loaded up to MaxLoads    *)
(* times by the source under test.                                         *)

InitLoad ==
    /\ Constructed
    /\ \E inp \in LoadInputs :
          /\ csvFile  = [s \in Sources |-> IF s = "compare" THEN inp.csv ELSE PlainInput.csv]
          /\ yamlFile = [s \in Sources |-> IF s = "compare" THEN inp.yaml ELSE PlainInput.yaml]
    /\ config = NoConfig
    /\ rules  = NoRules
    /\ now    = 0

NextLoad == Load("compare")

SpecLoad == InitLoad /\ [][NextLoad]_vars

----------------------------------------------------------------------------
(* What the data file of a source holds, read with the mapping the source  *)
(* stores (used to state the properties below).                            *)

KeptLines(s) ==
    SkipRows(csvFile[s], yamlFile[s].options.skip_first_rows,
             yamlFile[s].options.skip_last_rows)

FileHeader(s) == IF KeptLines(s) = <<>> THEN <<>> ELSE KeptLines(s)[1]

FileRows(s) == IF KeptLines(s) = <<>> THEN <<>> ELSE DataRows(KeptLines(s), 2)

\* the column the stored mapping gives field f
ColumnOf(s, f) == mapping[s][CHOOSE i \in 1..Len(mapping[s]) : mapping[s][i].k = f].v

\* the raw cell of field f in data row r
RawCell(s, r, f) == RowGet(FileHeader(s), FileRows(s)[r], ColumnOf(s, f))

\* the rules of field f that apply to a raw text, by position
ApplicableRules(s, f, raw) ==
    IF f \notin DOMAIN rewrite[s] THEN {}
    ELSE {i \in 1..Len(rewrite[s][f]) :
             IF rewrite[s][f][i].null THEN raw = <<>>
             ELSE RegexMatch(rewrite[s][f][i].src, raw).ok}

\* the text installed for a raw text: [ok, s]
Rewritten(s, f, raw) ==
    IF ApplicableRules(s, f, raw) = {} THEN [ok |-> TRUE, s |-> raw]
    ELSE LET rule == rewrite[s][f][SetMin(ApplicableRules(s, f, raw))]
         IN  IF rule.null THEN [ok |-> TRUE, s |-> rule.dst]
             ELSE Expand(rule.dst, RegexMatch(rule.src, raw).groups)

EnumFields == {"status", "type", "user_type"}

\* some data row holds, for a mapped enumeration field, a text that after
\* rewriting is not one of the field's literals
EnumViolation(s) ==
    \E r \in 1..Len(FileRows(s)) : \E f \in EnumFields :
        /\ HasField(s, f)
        /\ ~RawCell(s, r, f).none
        /\ Rewritten(s, f, RawCell(s, r, f).s).ok
        /\ Rewritten(s, f, RawCell(s, r, f).s).s \notin EnumValues(f)

\* C1: a mapped enumeration field holding a value outside its declared
\* literals makes the load fail: no record is kept and no finding recorded.
C1_EnumRejection ==
    \A s \in Sources :
        (loads[s] > 0 /\ EnumViolation(s)) =>
            /\ loaded[s] = "failed"
            /\ users[s] = <<>>
            /\ findings[s] = NoFindings

C1_Witness ==
    /\ loads["compare"] > 0
    /\ EnumViolation("compare")
    /\ last.op = "load" /\ ~last.ok /\ last.cause = "enum"

\* two data rows whose user_id cells normalise to the same identifier
DuplicateIds(s) ==
    /\ HasField(s, "user_id")
    /\ \E r1, r2 \in 1..Len(FileRows(s)) :
          /\ r1 # r2
          /\ ~RawCell(s, r1, "user_id").none
          /\ ~RawCell(s, r2, "user_id").none
          /\ Rewritten(s, "user_id", RawCell(s, r1, "user_id").s).ok
          /\ Rewritten(s, "user_id", RawCell(s, r1, "user_id").s)
                = Rewritten(s, "user_id", RawCell(s, r2, "user_id").s)

\* C2: after a successful load every record is stored under its own user_id,
\* no two records share one, there is one record per data row, and a file in
\* which two rows normalise to the same user_id fails to load.
C2_UniqueUserId ==
    \A s \in Sources :
        /\ loaded[s] = "ok" =>
              /\ \A i, j \in 1..Len(users[s]) :
                    users[s][i].key = users[s][j].key => i = j
              /\ \A i \in 1..Len(users[s]) :
                    users[s][i].rec["user_id"] = VStr(users[s][i].key)
              /\ Len(users[s]) = Len(FileRows(s))
        /\ (loads[s] > 0 /\ DuplicateIds(s)) =>
              (loaded[s] = "failed" /\ users[s] = <<>>)

C2_Witness ==
    /\ DuplicateIds("compare")
    /\ last.op = "load" /\ ~last.ok /\ last.cause = "duplicate"

\* the value is the instant 1970-01-01T00:00:00Z (a naive value is read as UTC)
IsSentinelInstant(v) ==
    v.k = "date" /\ (IF v.aware THEN v.wall - v.off = 0 ELSE v.wall = 0)

\* C3: an empty last_login normalises to the sentinel instant, and
\* has_logged_in is false exactly for the records holding that instant.
C3_SentinelLogin ==
    \A s \in Sources :
        (loaded[s] = "ok" /\ HasField(s, "last_login")) =>
            \A i \in 1..Len(users[s]) :
                /\ RawCell(s, i, "last_login").s = <<>> =>
                      users[s][i].rec["last_login"] = NEVER_LOGGED_IN
                /\ HasLoggedIn(s, users[s][i].rec)
                      <=> ~IsSentinelInstant(users[s][i].rec["last_login"])

\* C4: the first rule of a field that applies to the raw text replaces it by
\* its replacement with the capture groups substituted, the result is what
\* is coerced and stored, and a text no rule applies to is stored unchanged;
\* with the rule ^(\w+)@oldco\.com$ -> \1@newco.com, alice@oldco.com is
\* stored as alice@newco.com and alice@other.com as it is.
C4_RewriteBackreference ==
    \A s \in Sources :
        loaded[s] = "ok" =>
            \A i \in 1..Len(users[s]) : \A f \in DOMAIN rewrite[s] :
                HasField(s, f) =>
                    LET raw == RawCell(s, i, f).s
                        val == users[s][i].rec[f]
                    IN  /\ Rewritten(s, f, raw).ok
                        /\ val = Conform(Rewritten(s, f, raw).s, f).v
                        /\ ApplicableRules(s, f, raw) = {} => val = Conform(raw, f).v
                        /\ (/\ f = "email"
                            /\ rewrite[s][f] = <<RuleItem(R_newco, P_oldco)>>
                            /\ raw = At(S_alice, S_oldco))
                              => val = VStr(At(S_alice, S_newco))
                        /\ (/\ f = "email"
                            /\ rewrite[s][f] = <<RuleItem(R_newco, P_oldco)>>
                            /\ raw = At(S_alice, S_other))
                              => val = VStr(At(S_alice, S_other))

C4_Witness ==
    /\ loaded["compare"] = "ok"
    /\ rewrite["compare"] = ("email" :> <<RuleItem(R_newco, P_oldco)>>)
    /\ Len(users["compare"]) = 2
    /\ RawCell("compare", 1, "email").s = At(S_alice, S_oldco)
    /\ users["compare"][1].rec["email"] = VStr(At(S_alice, S_newco))
    /\ RawCell("compare", 2, "email").s = At(S_alice, S_other)
    /\ users["compare"][2].rec["email"] = VStr(At(S_alice, S_other))

----------------------------------------------------------------------------
(* Inputs of the comparator *)

S_c42  == S_contractor \o <<"-","4","2">>
S_x    == <<"x",".","c","o","m">>
S_y    == <<"y",".","c","o","m">>
S_a    == <<"a">>
S_b    == <<"b">>
S_r0   == <<"r","0">>
S_r1   == <<"r","1">>
S_r2   == <<"r","2">>
S_sso  == <<"s","s","o">>
S_ldap == <<"l","d","a","p">>

\* the pattern ^contractor-.*$
P_contractor == <<"^">> \o S_contractor \o <<"-",".","*","$">>

\* the pattern .*
P_any == <<".","*">>

Exception(field, pattern, reason) ==
    [hasOnly |-> FALSE, only |-> {}, hasSkip |-> FALSE, skip |-> {},
     field |-> field, pattern |-> pattern, reason |-> reason]

ExceptionOnly(only, field, pattern, reason) ==
    [hasOnly |-> TRUE, only |-> only, hasSkip |-> FALSE, skip |-> {},
     field |-> field, pattern |-> pattern, reason |-> reason]

ExceptionSkip(skip, field, pattern, reason) ==
    [hasOnly |-> FALSE, only |-> {}, hasSkip |-> TRUE, skip |-> skip,
     field |-> field, pattern |-> pattern, reason |-> reason]

ExceptionLists ==
    {<<>>,
     <<Exception("user_id", P_contractor, S_r1)>>,
     <<Exception("department", P_any, S_r0), Exception("user_id", P_contractor, S_r1)>>,
     <<ExceptionOnly({S_ldap}, "user_id", P_any, S_r0),
       Exception("user_id", P_contractor, S_r1)>>,
     <<ExceptionSkip({S_sso}, "user_id", P_any, S_r0),
       Exception("user_id", P_contractor, S_r1), Exception("user_id", P_any, S_r2)>>}

\* users missing from the source of truth: identifiers and statuses; the
\* second mapping file leaves status unmapped
CompareInputsMissing ==
    LET y == [name |-> S_sso,
              mapping |-> <<MapItem("user_id", S_id), MapItem("status", S_st)>>,
              rewrite |-> NoRewrite, options |-> NoOptions]
        yId == [name |-> S_sso, mapping |-> <<MapItem("user_id", S_id)>>,
                rewrite |-> NoRewrite, options |-> NoOptions]
        rowSet == {<<i, st>> :
                      i \in {S_u2, S_c42},
                      st \in {S_active, S_inactive, S_suspended, S_deactivated,
                              S_deleted, S_unknown}}
        idSet == {<<i>> : i \in {S_u1, S_u2, S_c42}}
        pairs == {[yaml |-> y, csv |-> f] : f \in FilesOf(<<S_id, S_st>>, rowSet, MaxRows)}
                 \cup {[yaml |-> yId, csv |-> f] : f \in FilesOf(<<S_id>>, idSet, MaxRows)}
    IN  {[truth |-> PlainInput, compare |-> c, exceptions |-> e] :
            c \in pairs, e \in ExceptionLists}

\* users present in both sources: e-mail addresses
CompareInputsBoth ==
    LET y(n) == [name |-> n,
                 mapping |-> <<MapItem("user_id", S_id), MapItem("email", S_mail)>>,
                 rewrite |-> NoRewrite, options |-> NoOptions]
        mails == {At(S_a, S_x), At(S_b, S_x), At(S_a, S_y), S_alice, S_empty}
    IN  {[truth |-> [yaml |-> y(<<"h","r">>), csv |-> <<<<S_id, S_mail>>, <<S_u1, m>>>>],
          compare |-> [yaml |-> y(S_sso), csv |-> f],
          exceptions |-> <<>>] :
            m \in mails,
            f \in FilesOf(<<S_id, S_mail>>,
                          {<<i, cm>> : i \in {S_u1, S_u2}, cm \in mails}, MaxRows)}

S_dp  == <<"d","p">>
S_ops == <<"o","p","s">>
S_it  == <<"i","t">>

\* one user in both sources; each side maps its own choice of email,
\* department and title
CompareInputsFields ==
    LET y(n, m) == [name |-> n, mapping |-> <<MapItem("user_id", S_id)>> \o m,
                    rewrite |-> NoRewrite, options |-> NoOptions]
        mapsSet == {<<MapItem("email", S_mail), MapItem("department", S_dp),
                      MapItem("title", S_dp)>>,
                    <<MapItem("department", S_dp)>>,
                    <<MapItem("email", S_mail), MapItem("title", S_dp)>>}
        file(m, d) == <<<<S_id, S_mail, S_dp>>, <<S_u1, m, d>>>>
    IN  {[truth |-> [yaml |-> y(<<"h","r">>, tm), csv |-> file(m1, S_ops)],
          compare |-> [yaml |-> y(S_sso, cm), csv |-> file(m2, d2)],
          exceptions |-> <<>>] :
            tm \in mapsSet, cm \in mapsSet,
            m1 \in {At(S_a, S_x), S_empty}, m2 \in {At(S_a, S_x), At(S_a, S_y)},
            d2 \in {S_ops, S_it}}

CompareInputs == CompareInputsMissing \cup CompareInputsBoth \cup CompareInputsFields

InitCompare ==
    /\ Constructed
    /\ \E inp \in CompareInputs :
          /\ csvFile  = [s \in Sources |-> IF s = "compare" THEN inp.compare.csv
                                           ELSE inp.truth.csv]
          /\ yamlFile = [s \in Sources |-> IF s = "compare" THEN inp.compare.yaml
                                           ELSE inp.truth.yaml]
          /\ rules = [exceptions |-> inp.exceptions, validation |-> <<>>]
    /\ config = NoConfig
    /\ now    = 0

\* the run loads the source of truth, then the compare source, once each
LoadTruth == loads["truth"] = 0 /\ Load("truth")

LoadCompare == loaded["truth"] = "ok" /\ loads["compare"] = 0 /\ Load("compare")

NextCompare == LoadTruth \/ LoadCompare \/ Compare

SpecCompare == InitCompare /\ [][NextCompare]_vars

----------------------------------------------------------------------------
(* Properties of compare *)

FindingsOf(fs, u) == IF u \in DOMAIN fs THEN fs[u] ELSE <<>>

\* the findings the last call added for user u of source s
Added(s, u) ==
    SubSeq(FindingsOf(findings[s], u), Len(FindingsOf(prev[s], u)) + 1,
           Len(FindingsOf(findings[s], u)))

KeysOf(fl) == [i \in 1..Len(fl) |-> fl[i].key]

\* some applicable exception's pattern matches the record's value of its field
HasMatchingException(rec) ==
    \E i \in 1..Len(rules.exceptions) :
        LET e == rules.exceptions[i]
        IN  /\ ~e.hasOnly \/ name["compare"] \in e.only
            /\ ~e.hasSkip \/ name["compare"] \notin e.skip
            /\ RecGet(rec, e.field).k = "str"
            /\ RegexMatch(e.pattern, RecGet(rec, e.field).s).ok

CompareOnly(i) == users["compare"][i].key \notin DictKeys(users["truth"])

\* C5: a compare-only user with an applicable matching exception receives
\* exactly one finding from the compare call, DOCUMENTED_EXCEPTION.
C5_ExceptionShortCircuit ==
    last.op = "compare" =>
        \A i \in 1..Len(users["compare"]) :
            (CompareOnly(i) /\ HasMatchingException(users["compare"][i].rec)) =>
                KeysOf(Added("compare", users["compare"][i].key))
                    = <<"DOCUMENTED_EXCEPTION">>

\* the finding the claim assigns to a status
StatusFinding(status) ==
    CASE status = VStr(S_active)    -> "SOURCE_MISSING_ACTIVE"
      [] status = VStr(S_inactive)  -> "SOURCE_MISSING_INACTIVE"
      [] status = VStr(S_suspended) -> "SOURCE_MISSING_SUSPENDED"
      [] status = VStr(S_deleted)   -> "SOURCE_MISSING_DELETED"
      [] status = VStr(S_unknown)   -> "SOURCE_MISSING_UNKNOWN"
      [] OTHER                      -> "SOURCE_MISSING"

\* C6: a compare-only user with no applicable matching exception receives
\* exactly one finding from the compare call, the one of its status.
C6_StatusSpecificMissing ==
    last.op = "compare" =>
        \A i \in 1..Len(users["compare"]) :
            (CompareOnly(i) /\ ~HasMatchingException(users["compare"][i].rec)) =>
                KeysOf(Added("compare", users["compare"][i].key))
                    = <<StatusFinding(users["compare"][i].rec["status"])>>

\* the text after the first @ of an address (empty when it has no @)
AfterFirstAt(s) ==
    IF \A i \in 1..Len(s) : s[i] # "@" THEN <<>>
    ELSE SubSeq(s, SetMin({i \in 1..Len(s) : s[i] = "@"}) + 1, Len(s))

HasKeyIn(fl, key) == \E i \in 1..Len(fl) : fl[i].key = key

\* C7: compare completes, and for a user in both sources with email mapped
\* on both sides DOMAIN_MISMATCH is emitted iff the domain parts differ.
C7_DomainMismatch ==
    last.op = "compare" =>
        /\ last.ok
        /\ FieldSupported("email") =>
              \A i \in 1..Len(users["compare"]) :
                  ~CompareOnly(i) =>
                      LET uid == users["compare"][i].key
                          se  == DictGet(users["truth"], uid)["email"].s
                          ce  == users["compare"][i].rec["email"].s
                      IN  HasKeyIn(Added("compare", uid), "DOMAIN_MISMATCH")
                              <=> AfterFirstAt(se) # AfterFirstAt(ce)

----------------------------------------------------------------------------
(* DynamicAnalysis.validate.  A rule is [name, reason, severity, field,     *)
(* skip_empty, operation, trigger, value, values, regex]: value is the     *)
(* operand (VNone when the rule has none), values is [null, list] and      *)
(* regex is a VStr or VNone.  An evaluation gives ok = FALSE when the      *)
(* statement raises.                                                       *)

\* the characters of the inputs, in code point order
CharOrder ==
    <<" ", "-", ".", "0","1","2","3","4","5","6","7","8","9", ":", "@",
      "A","B","C","D","E","F","G","H","I","J","K","L","M",
      "N","O","P","Q","R","S","T","U","V","W","X","Y","Z", "_",
      "a","b","c","d","e","f","g","h","i","j","k","l","m",
      "n","o","p","q","r","s","t","u","v","w","x","y","z">>

CharCode(c) == IF \E i \in 1..Len(CharOrder) : CharOrder[i] = c
               THEN CHOOSE i \in 1..Len(CharOrder) : CharOrder[i] = c
               ELSE 0

\* str < str
StrLess(a, b) ==
    \E n \in 0..Len(a) :
        /\ n <= Len(b)
        /\ \A j \in 1..n : a[j] = b[j]
        /\ \/ n = Len(a) /\ n < Len(b)
           \/ n < Len(a) /\ n < Len(b) /\ CharCode(a[n + 1]) < CharCode(b[n + 1])

\* str.startswith
StartsWith(s, prefix) ==
    Len(prefix) <= Len(s) /\ SubSeq(s, 1, Len(prefix)) = prefix

\* str.endswith
EndsWith(s, suffix) ==
    Len(suffix) <= Len(s) /\ SubSeq(s, Len(s) - Len(suffix) + 1, Len(s)) = suffix

\* needle in haystack, on strings
Contains(haystack, needle) ==
    \E i \in 1..(Len(haystack) + 1) :
        i + Len(needle) - 1 <= Len(haystack)
        /\ SubSeq(haystack, i, i + Len(needle) - 1) = needle

\* bool is a subclass of int
IsNum(v) == v.k \in {"int", "bool"}

Num(v) == IF v.k = "bool" THEN (IF v.b THEN 1 ELSE 0) ELSE v.n

\* a < b: numbers with numbers, strings with strings, dates with dates of
\* the same awareness; every other pairing raises TypeError
Less(a, b) ==
    IF IsNum(a) /\ IsNum(b) THEN [ok |-> TRUE, hit |-> Num(a) < Num(b)]
    ELSE IF a.k = "str" /\ b.k = "str" THEN [ok |-> TRUE, hit |-> StrLess(a.s, b.s)]
    ELSE IF a.k = "date" /\ b.k = "date" /\ a.aware = b.aware
    THEN [ok |-> TRUE,
          hit |-> IF a.aware THEN a.wall - a.off < b.wall - b.off ELSE a.wall < b.wall]
    ELSE [ok |-> FALSE, hit |-> FALSE]

\* value in rule.get('values')
InValues(value, values) ==
    IF values.null THEN [ok |-> FALSE, hit |-> FALSE]
    ELSE [ok |-> TRUE,
          hit |-> \E i \in 1..Len(values.list) : ValEq(value, values.list[i])]

\* re.match(rule.get('regex'), str(value))
Matches(value, re) ==
    IF re.k # "str" THEN [ok |-> FALSE, hit |-> FALSE]
    ELSE [ok |-> TRUE, hit |-> RegexMatch(re.s, ToStr(value)).ok]

Hit(b) == [ok |-> TRUE, hit |-> b]

Negate(r) == [ok |-> r.ok, hit |-> r.ok /\ ~r.hit]

\* the elif chain over rule.get('trigger')
Triggered(rule, value) ==
    CASE rule.trigger = "greater_than" -> Less(rule.value, value)
      [] rule.trigger = "less_than"    -> Less(value, rule.value)
      [] rule.trigger = "equal_to"     -> Hit(ValEq(value, rule.value))
      [] rule.trigger = "not_equal_to" -> Hit(~ValEq(value, rule.value))
      [] rule.trigger = "equal_to_case" ->
            Hit(Lower(ToStr(value)) = Lower(ToStr(rule.value)))
      [] rule.trigger = "not_equal_to_case" ->
            Hit(Lower(ToStr(value)) # Lower(ToStr(rule.value)))
      [] rule.trigger = "contains" ->
            Hit(Contains(Lower(ToStr(value)), Lower(ToStr(rule.value))))
      [] rule.trigger = "not_contains" ->
            Hit(~Contains(Lower(ToStr(value)), Lower(ToStr(rule.value))))
      [] rule.trigger = "starts_with" ->
            Hit(StartsWith(ToStr(value), ToStr(rule.value)))
      [] rule.trigger = "ends_with" ->
            Hit(EndsWith(ToStr(value), ToStr(rule.value)))
      [] rule.trigger = "starts_with_case" ->
            Hit(StartsWith(Lower(ToStr(value)), Lower(ToStr(rule.value))))
      [] rule.trigger = "ends_with_case" ->
            Hit(EndsWith(Lower(ToStr(value)), Lower(ToStr(rule.value))))
      [] rule.trigger = "matches"     -> Matches(value, rule.regex)
      [] rule.trigger = "not_matches" -> Negate(Matches(value, rule.regex))
      [] rule.trigger = "in"          -> InValues(value, rule.values)
      [] rule.trigger = "not_in"      -> Negate(InValues(value, rule.values))
      [] rule.trigger = "is_true"     -> Hit(value = VBool(TRUE))
      [] rule.trigger = "is_false"    -> Hit(value = VBool(FALSE))
      [] rule.trigger = "is_none"     -> Hit(value.k = "none")
      [] rule.trigger = "is_not_none" -> Hit(value.k # "none")
      [] OTHER -> Hit(FALSE)

\* the skip-empty chain: the canonical values are datetimes, strings,
\* booleans (caught by the int branch) and None
SkipEmpty(value) ==
    \/ value.k = "date" /\ ~HasDateValue(value)
    \/ value.k = "str" /\ IsBlank(value.s)
    \/ IsNum(value) /\ Num(value) = 0
    \/ value.k = "none"

\* (datetime.now() - value).days: now is naive, so the subtraction raises
\* for an aware datetime and for anything that is not a datetime
DaysSince(value) ==
    IF value.k = "date" /\ ~value.aware
    THEN [ok |-> TRUE, v |-> VInt((now - value.wall) \div HoursPerDay)]
    ELSE [ok |-> FALSE, v |-> value]

\* the operation step
Operated(rule, value) ==
    IF rule.operation = "days_since" THEN DaysSince(value)
    ELSE [ok |-> TRUE, v |-> value]

\* Finding(rule.get('name'), rule.get('reason'), rule.get('severity'))
RuleFinding(rule) ==
    [key |-> rule.name, severity |-> rule.severity, description |-> rule.reason]

RECURSIVE ValidateFrom(_, _, _, _)

\* the trigger step and add_finding, then the next user
ValidateTrigger(s, ri, ui, fs, value, t) ==
    IF ~t.ok THEN [ok |-> FALSE, fs |-> fs, cause |-> "raised"]
    ELSE IF t.hit /\ AddFindingRaises(RuleFinding(rules.validation[ri]),
                                      <<Param("value", value)>>)
    THEN [ok |-> FALSE, fs |-> AddFindingAborted(fs, users[s][ui].key),
          cause |-> "format"]
    ELSE ValidateFrom(s, ri, ui + 1,
                      IF t.hit
                      THEN AddFinding(fs, users[s][ui].key,
                                      RuleFinding(rules.validation[ri]),
                                      <<Param("value", value)>>)
                      ELSE fs)

ValidateValue(s, ri, ui, fs, tv) ==
    IF ~tv.ok THEN [ok |-> FALSE, fs |-> fs, cause |-> "raised"]
    ELSE ValidateTrigger(s, ri, ui, fs, tv.v, Triggered(rules.validation[ri], tv.v))

ValidateUser(s, ri, ui, fs, rule, value) ==
    IF rule.skip_empty /\ SkipEmpty(value) THEN ValidateFrom(s, ri, ui + 1, fs)
    ELSE ValidateValue(s, ri, ui, fs, Operated(rule, value))

\* faulty variant of ValidateFrom: the rules on unmapped fields are evaluated
ValidateFromAll(s, ri, ui, fs) ==
    IF ri > Len(rules.validation) THEN [ok |-> TRUE, fs |-> fs, cause |-> "none"]
    ELSE IF ui > Len(users[s])
    THEN ValidateFrom(s, ri + 1, 1, fs)
    ELSE ValidateUser(s, ri, ui, fs, rules.validation[ri],
                      RecGet(users[s][ui].rec, rules.validation[ri].field))

\* validate from rule ri, user ui on: [ok, fs, cause]
ValidateFrom(s, ri, ui, fs) ==
    IF ri > Len(rules.validation) THEN [ok |-> TRUE, fs |-> fs, cause |-> "none"]
    ELSE IF ~HasField(s, rules.validation[ri].field) \/ ui > Len(users[s])
    THEN ValidateFrom(s, ri + 1, 1, fs)
    ELSE ValidateUser(s, ri, ui, fs, rules.validation[ri],
                      RecGet(users[s][ui].rec, rules.validation[ri].field))

Validated(s, r) ==
    /\ findings' = [findings EXCEPT ![s] = r.fs]
    /\ last' = [op |-> "validate", src |-> s, ok |-> r.ok,
                cause |-> r.cause, rule |-> NoRule]

DynValidate(s) ==
    /\ loaded[s] = "ok"
    /\ ops < MaxOps
    /\ Validated(s, ValidateFrom(s, 1, 1, findings[s]))
    /\ prev' = findings
    /\ ops' = ops + 1
    /\ UNCHANGED <<name, mapping, rewrite, users, managers, loaded, loads>>
    /\ UNCHANGED envVars

----------------------------------------------------------------------------
(* Inputs of the rule engine: one source with a date, a boolean or a       *)
(* string column, and a list of rules on it.                               *)

S_tf   == <<"t","f">>
S_dept == <<"d","e","p","t">>
S_Eng  == <<"E","n","g">>
S_eng  == <<"e","n","g">>
S_ENG  == <<"E","N","G">>
S_No   == <<"N","o">>
S_bogus == <<"b","o","g","u","s">>

\* the pattern ^e
P_e == <<"^","e">>

UserId(j) == <<"u">> \o Digits(j)

\* every file with the given header and at most n rows; row j is user uj
\* with a cell of cellSet
DynFiles(header, cellSet, n) ==
    UNION {{<<header>> \o [j \in 1..k |-> <<UserId(j), c[j]>>] : c \in [1..k -> cellSet]} :
              k \in 0..n}

NoValues == [null |-> TRUE, list |-> <<>>]

S_warning == <<"w","a","r","n","i","n","g">>

\* reasons of a rule file: the supplied parameter, one parameter that is
\* not supplied, two of them, and the same one twice
R_value == <<Lit("value "), Ph("value")>>
R_field == <<Ph("value"), Lit(" in "), Ph("field")>>
R_user_field == <<Ph("user"), Lit(" has "), Ph("value"), Lit(" in "), Ph("field")>>
R_field_twice == <<Ph("field"), Lit(" is "), Ph("field")>>

DynRule(rname, field, skip, operation, trigger, value) ==
    [name |-> rname, reason |-> R_value, severity |-> VStr(S_warning), field |-> field,
     skip_empty |-> skip, operation |-> operation, trigger |-> trigger,
     value |-> value, values |-> NoValues, regex |-> VNone]

ListRule(rname, field, skip, trigger, list) ==
    [name |-> rname, reason |-> R_value, severity |-> VStr(S_warning), field |-> field,
     skip_empty |-> skip, operation |-> "none", trigger |-> trigger,
     value |-> VNone, values |-> [null |-> FALSE, list |-> list], regex |-> VNone]

RegexRule(rname, field, skip, trigger, re) ==
    [name |-> rname, reason |-> R_value, severity |-> VStr(S_warning), field |-> field,
     skip_empty |-> skip, operation |-> "none", trigger |-> trigger,
     value |-> VNone, values |-> NoValues, regex |-> re]

DynYaml(field, column) ==
    [name |-> S_sso, mapping |-> <<MapItem("user_id", S_id), MapItem(field, column)>>,
     rewrite |-> NoRewrite, options |-> NoOptions]

DateRules ==
    {<<r>> : r \in
        {DynRule("R1", "last_login", sk, "days_since", tr, VInt(n)) :
            sk \in BOOLEAN, tr \in {"greater_than", "less_than"}, n \in {1}}
        \cup {DynRule("R1", "last_login", sk, "none", tr, VNone) :
                sk \in BOOLEAN, tr \in {"is_not_none", "is_none"}}}
    \cup {<<DynRule("R1", "department", FALSE, "none", "is_none", VNone),
            DynRule("R2", "last_login", TRUE, "days_since", "greater_than", VInt(0))>>,
          <<DynRule("R1", "last_login", TRUE, "none", "not_equal_to", VNone),
            DynRule("R2", "last_login", FALSE, "days_since", "greater_than", VInt(0))>>}

BoolRules ==
    {<<r>> : r \in
        {DynRule("R1", "two_factor", sk, "none", tr, v) :
            sk \in BOOLEAN,
            tr \in {"is_false", "is_true", "equal_to", "not_equal_to", "less_than"},
            v \in {VBool(FALSE), VInt(1)}}
        \cup {ListRule("R1", "two_factor", sk, tr, <<VBool(FALSE), VStr(S_no)>>) :
                sk \in BOOLEAN, tr \in {"in", "not_in"}}
        \cup {DynRule("R1", "two_factor", sk, op, tr, VNone) :
                sk \in BOOLEAN, op \in {"none", "days_since"}, tr \in {"in", "is_none"}}}

StrRules ==
    {<<r>> : r \in
        {DynRule("R1", "department", sk, "none", tr, v) :
            sk \in BOOLEAN,
            tr \in {"equal_to", "equal_to_case", "not_equal_to_case", "contains",
                    "not_contains", "starts_with", "ends_with", "starts_with_case",
                    "ends_with_case", "greater_than", "bogus"},
            v \in {VStr(S_empty), VStr(S_ENG)}}
        \cup {RegexRule("R1", "department", sk, tr, re) :
                sk \in BOOLEAN, tr \in {"matches", "not_matches"},
                re \in {VStr(P_e), VNone}}
        \cup {ListRule("R1", "department", sk, tr, <<VStr(S_Eng), VStr(S_empty)>>) :
                sk \in BOOLEAN, tr \in {"in", "not_in"}}}

\* rules that differ in their reason
ReasonRules ==
    {<<[DynRule("R1", "department", sk, "none", "is_not_none", VNone)
            EXCEPT !.reason = r]>> :
        sk \in BOOLEAN, r \in {R_value, R_field, R_user_field, R_field_twice}}

DynInputs ==
    {[yaml |-> DynYaml("last_login", S_login), csv |-> f, rules |-> r, now |-> n] :
        f \in DynFiles(<<S_id, S_login>>,
                       {S_empty, T_five_plus5, T_epoch_plus5, T_epoch_naive,
                        T_day3_naive, T_day2_utc}, MaxRows),
        r \in DateRules, n \in {40, 100}}
    \cup {[yaml |-> DynYaml("two_factor", S_tf), csv |-> f, rules |-> r, now |-> 100] :
            f \in DynFiles(<<S_id, S_tf>>, {S_true, S_false, S_No, S_1}, MaxRows),
            r \in BoolRules}
    \cup {[yaml |-> DynYaml("department", S_dept), csv |-> f, rules |-> r, now |-> 100] :
            f \in DynFiles(<<S_id, S_dept>>, {S_empty, <<" ">>, S_Eng, S_eng}, MaxRows),
            r \in StrRules}
    \cup {[yaml |-> DynYaml("department", S_dept), csv |-> f, rules |-> r, now |-> 100] :
            f \in DynFiles(<<S_id, S_dept>>, {S_empty, S_Eng}, MaxRows),
            r \in ReasonRules}

InitDyn ==
    /\ Constructed
    /\ \E inp \in DynInputs :
          /\ csvFile  = [s \in Sources |-> IF s = "compare" THEN inp.csv
                                           ELSE PlainInput.csv]
          /\ yamlFile = [s \in Sources |-> IF s = "compare" THEN inp.yaml
                                           ELSE PlainInput.yaml]
          /\ rules = [exceptions |-> <<>>, validation |-> inp.rules]
          /\ now   = inp.now
    /\ config = NoConfig

\* the source under validation is loaded once
LoadOnce == loads["compare"] = 0 /\ Load("compare")

Validate == DynValidate("compare")

NextDyn == LoadOnce \/ Validate

SpecDyn == InitDyn /\ [][NextDyn]_vars

----------------------------------------------------------------------------
(* Properties of validate *)

\* the value is empty for its type; a date is empty when it is the sentinel
\* instant
IsEmptyValue(v) ==
    \/ v.k = "bool" /\ ~v.b
    \/ v.k = "str" /\ IsBlank(v.s)
    \/ v.k = "int" /\ v.n = 0
    \/ IsSentinelInstant(v)
    \/ v.k = "none"

\* C8: a rule with skip-empty set emits no finding for a record whose value
\* of the rule's field is empty for its type, whatever the trigger.
C8_SkipEmptyNeverEmits ==
    last.op = "validate" =>
        \A ri \in 1..Len(rules.validation), ui \in 1..Len(users["compare"]) :
            (rules.validation[ri].skip_empty
             /\ IsEmptyValue(RecGet(users["compare"][ui].rec, rules.validation[ri].field)))
            => ~HasKeyIn(Added("compare", users["compare"][ui].key),
                         rules.validation[ri].name)

\* the whole days from the instant of v to now
DayCount(v) ==
    (now - (IF v.aware THEN v.wall - v.off ELSE v.wall)) \div HoursPerDay

\* C9: a days_since / greater_than N rule emits its finding, bound with the
\* day count, for a record iff the day count of its date exceeds N; the
\* sentinel instant is exempt only when skip-empty is set.
C9_DaysSinceGreaterThan ==
    last.op = "validate" =>
        \A ri \in 1..Len(rules.validation), ui \in 1..Len(users["compare"]) :
            LET rule  == rules.validation[ri]
                value == RecGet(users["compare"][ui].rec, rule.field)
                added == Added("compare", users["compare"][ui].key)
            IN  (/\ rule.operation = "days_since" /\ rule.trigger = "greater_than"
                 /\ rule.value.k = "int" /\ value.k = "date"
                 /\ ~(rule.skip_empty /\ IsSentinelInstant(value)))
                => ((\E i \in 1..Len(added) :
                        /\ added[i].key = rule.name
                        /\ added[i].severity = rule.severity
                        /\ added[i].params = <<Param("value", VInt(DayCount(value)))>>)
                    <=> DayCount(value) > rule.value.n)

----------------------------------------------------------------------------
(* Properties of finding instantiation *)

\* the message of a description whose missing parameters all read ##N/A##
MarkedMessage(description, params) ==
    [i \in 1..Len(description) |->
        IF description[i].lit THEN [lit |-> description[i].t]
        ELSE IF description[i].t \in ParamNames(params)
        THEN [s |-> ParamStr(params, description[i].t)]
        ELSE [s |-> NA]]

\* the rules of the rule file with the given name
RulesNamed(n) ==
    {rules.validation[ri] : ri \in {i \in 1..Len(rules.validation) :
                                        rules.validation[i].name = n}}

\* C11: instantiating a finding never raises for a missing parameter: every
\* placeholder of the description that is not supplied, one or several, is
\* rendered as ##N/A## and the supplied parameters are substituted normally.
C11_MissingParameterMarker ==
    last.op = "validate" =>
        /\ last.cause # "format"
        /\ \A ui \in 1..Len(users["compare"]) :
              LET added == Added("compare", users["compare"][ui].key)
              IN  \A i \in 1..Len(added) :
                     \E rule \in RulesNamed(added[i].key) :
                        added[i].message = MarkedMessage(rule.reason, added[i].params)

----------------------------------------------------------------------------
(* StaticAnalysis.validate: analysis/static_analysis.py.  The checks of    *)
(* one user thread the findings dict fs; a check that raises ends the      *)
(* call with the findings added so far.                                    *)

\* DataSource.has_findings on the findings dict fs
HasFindings(fs) == DOMAIN fs # {}

\* regex.match(r'^\p{L}[\p{L}\s\-\.\,\'\(\)0-9]*$', s)
NamePattern(s) ==
    /\ s # <<>>
    /\ s[1] \in AlphaChars
    /\ \A i \in 2..Len(s) :
          s[i] \in AlphaChars \cup {" "} \cup DigitChars
                      \cup {"-", ".", ",", "'", "(", ")"}

\* the branch on the email itself; the pattern is the one of is_valid_email
StaticEmailFormat(fs, uid, email) ==
    IF email = VNone \/ email = VStr(<<>>)
    THEN AddFinding(fs, uid, FindingType("EMAIL_MISSING"), <<>>)
    ELSE IF ~IsValidEmail(email.s)
    THEN AddFinding(fs, uid, FindingType("EMAIL_INVALID"), <<Param("email", email)>>)
    ELSE fs

\* domain = user['email'].split('@')[1] and the test against config.domains
StaticDomain(fs, uid, parts) ==
    IF Len(parts) < 2 THEN [ok |-> FALSE, fs |-> fs]
    ELSE IF parts[2] \in config.domains THEN [ok |-> TRUE, fs |-> fs]
    ELSE [ok |-> TRUE,
          fs |-> AddFinding(fs, uid, FindingType("DOMAIN_INVALID"),
                            <<Param("domain", VStr(parts[2]))>>)]

\* the email block: [ok, fs]
StaticEmail(s, fs, uid, rec) ==
    IF ~HasField(s, "email") THEN [ok |-> TRUE, fs |-> fs]
    ELSE IF rec["email"].k # "str" THEN [ok |-> FALSE, fs |-> fs]
    ELSE StaticDomain(StaticEmailFormat(fs, uid, rec["email"]), uid,
                      Split(rec["email"].s, "@"))

\* the first_name / last_name block
StaticName(s, fs, uid, rec, f, missing, invalid) ==
    IF ~HasField(s, f) THEN fs
    ELSE IF rec[f] = VNone \/ rec[f] = VStr(<<>>)
    THEN AddFinding(fs, uid, FindingType(missing), <<>>)
    ELSE IF ~NamePattern(rec[f].s)
    THEN AddFinding(fs, uid, FindingType(invalid), <<Param("name", rec[f])>>)
    ELSE fs

\* the manager block
StaticManager(s, fs, uid, rec) ==
    IF ~HasField(s, "manager") THEN fs
    ELSE IF rec["manager"] = VStr(<<>>)
    THEN AddFinding(fs, uid, FindingType("MANAGER_MISSING"), <<>>)
    ELSE IF rec["manager"].s \notin DictKeys(users[s])
    THEN AddFinding(fs, uid, FindingType("MANAGER_INVALID"),
                    <<Param("manager", rec["manager"])>>)
    ELSE IF ~HasLoggedIn(s, DictGet(users[s], rec["manager"].s)) /\ HasLoggedIn(s, rec)
    THEN AddFinding(fs, uid, FindingType("MANAGER_INACTIVE"),
                    <<Param("manager", rec["manager"])>>)
    ELSE fs

\* (datetime.now(created.tzinfo) - created).days: now is taken in the zone
\* of the value, the local zone being UTC
Age(created) ==
    (IF created.aware THEN now + created.off - created.wall
     ELSE now - created.wall) \div HoursPerDay

\* the last login block
StaticLogin(s, fs, uid, rec) ==
    IF HasLoggedIn(s, rec) THEN fs
    ELSE IF HasField(s, "created_date")
    THEN AddFinding(fs, uid, FindingType("LOGIN_NEVER_AGED"),
                    <<Param("age", VInt(Age(rec["created_date"])))>>)
    ELSE AddFinding(fs, uid, FindingType("LOGIN_NEVER"), <<>>)

\* the privileged block
StaticPrivileged(s, fs, uid, rec) ==
    IF HasField(s, "privileged") /\ rec["privileged"] = VBool(TRUE)
    THEN AddFinding(fs, uid, FindingType("ACCESS_PRIVILEGED"), <<>>)
    ELSE fs

\* the blocks after the email block
StaticChecks(s, fs, uid, rec) ==
    StaticPrivileged(s,
        StaticLogin(s,
            StaticManager(s,
                StaticName(s,
                    StaticName(s, fs, uid, rec, "first_name",
                               "FIRST_NAME_MISSING", "FIRST_NAME_INVALID"),
                    uid, rec, "last_name", "LAST_NAME_MISSING", "LAST_NAME_INVALID"),
                uid, rec),
            uid, rec),
        uid, rec)

RECURSIVE StaticFrom(_, _, _)

\* the rest of the loop once the email block of user ui is done
StaticAfterEmail(s, ui, e) ==
    IF ~e.ok THEN [ok |-> FALSE, fs |-> e.fs, ret |-> FALSE]
    ELSE StaticFrom(s, ui + 1,
                    StaticChecks(s, e.fs, users[s][ui].key, users[s][ui].rec))

\* validate from user ui on: [ok, fs, ret]; ret is the value returned
StaticFrom(s, ui, fs) ==
    IF ui > Len(users[s]) THEN [ok |-> TRUE, fs |-> fs, ret |-> ~HasFindings(fs)]
    ELSE StaticAfterEmail(s, ui, StaticEmail(s, fs, users[s][ui].key, users[s][ui].rec))

StaticValidated(s, r) ==
    /\ findings' = [findings EXCEPT ![s] = r.fs]
    /\ last' = [op |-> "static", src |-> s, ok |-> r.ok,
                cause |-> IF r.ok THEN "none" ELSE "raised", rule |-> NoRule,
                ret |-> r.ret]

StaticValidate(s) ==
    /\ loaded[s] = "ok"
    /\ ops < MaxOps
    /\ StaticValidated(s, StaticFrom(s, 1, findings[s]))
    /\ prev' = findings
    /\ ops' = ops + 1
    /\ UNCHANGED <<name, mapping, rewrite, users, managers, loaded, loads>>
    /\ UNCHANGED envVars

----------------------------------------------------------------------------
(* The severity queries of a source *)

SeverityNames == {"compliance", "error", "warning", "notice"}

\* DataSource.get_findings_by_severity on the findings dict fs: the users
\* with a finding of that severity, each with the list of those findings
GetFindingsBySeverity(fs, severity) ==
    [uid \in {u \in DOMAIN fs : \E i \in 1..Len(fs[u]) : fs[u][i].severity = severity}
        |-> SelectSeq(fs[uid], LAMBDA f : f.severity = severity)]

Query(s, sev) ==
    /\ loaded[s] = "ok"
    /\ ops < MaxOps
    /\ last' = [op |-> "query", src |-> s, ok |-> TRUE, cause |-> "none",
                rule |-> NoRule,
                ret |-> GetFindingsBySeverity(findings[s], Severity(sev))]
    /\ prev' = findings
    /\ ops' = ops + 1
    /\ UNCHANGED <<name, mapping, rewrite, users, managers, findings, loaded, loads>>
    /\ UNCHANGED envVars

----------------------------------------------------------------------------
(* Inputs of a review of one source: its files, the rules file and the     *)
(* approved domains.                                                       *)

S_xc    == <<"x",".","c">>
S_mgr   == <<"m","g","r">>
S_first == <<"f","i","r","s","t">>
S_priv  == <<"p","r","i","v">>
S_made  == <<"m","a","d","e">>
S_al    == <<"a","l">>
S_1x    == <<"1","x">>

ReviewYaml(items) ==
    [name |-> S_sso, mapping |-> <<MapItem("user_id", S_id)>> \o items,
     rewrite |-> NoRewrite, options |-> NoOptions]

ReviewInput(yaml, csv, validation, domains) ==
    [yaml |-> yaml, csv |-> csv, rules |-> validation, domains |-> domains]

\* a source with an email column
ReviewInputsEmail ==
    {ReviewInput(ReviewYaml(<<MapItem("email", S_mail)>>), f, <<>>, d) :
        f \in DynFiles(<<S_id, S_mail>>,
                       {S_empty, S_alice, At(S_a, S_b), At(S_a, S_xc), At(S_b, S_y)},
                       MaxRows),
        d \in {{}, {S_xc}}}

\* a source with and without the last_login and created_date columns
ReviewInputsLogin ==
    {ReviewInput(ReviewYaml(m), <<<<S_id, S_login, S_made>>>> \o rows, <<>>, {}) :
        m \in {<<>>, <<MapItem("last_login", S_login)>>,
               <<MapItem("created_date", S_made)>>,
               <<MapItem("last_login", S_login), MapItem("created_date", S_made)>>},
        rows \in {<<<<S_u1, l, c>>>> :
                     l \in {S_empty, T_five_plus5, T_epoch_plus5, T_day2_utc},
                     c \in {S_empty, T_epoch_naive, T_day2_minus3}}
                 \cup {<<>>, <<<<S_u1, S_empty, T_day2_utc>>, <<S_u2, T_day2_utc, S_empty>>>>}}

\* a source with a manager column
ReviewInputsManager ==
    {ReviewInput(ReviewYaml(<<MapItem("manager", S_mgr)>> \o m),
                 <<<<S_id, S_mgr, S_login>>, <<S_u1, g1, l1>>, <<S_u2, g2, l2>>>>, <<>>, {}) :
        m \in {<<>>, <<MapItem("last_login", S_login)>>,
               <<MapItem("last_login", S_login), MapItem("email", S_mgr)>>},
        g1 \in {S_empty, S_u1, S_u2, S_x}, g2 \in {S_empty, S_u1},
        l1 \in {S_empty, T_day2_utc}, l2 \in {S_empty, T_day2_utc, T_five_plus5}}

\* a source with a name and a privileged column
ReviewInputsName ==
    {ReviewInput(ReviewYaml(<<MapItem(nf, S_first), MapItem("privileged", S_priv)>>),
                 f, <<>>, {}) :
        nf \in {"first_name", "last_name"},
        f \in DynFiles(<<S_id, S_first, S_priv>>, {S_empty, S_al, S_1x}, 1)
              \cup {<<<<S_id, S_first, S_priv>>, <<S_u1, n, b>>>> :
                       n \in {S_empty, S_al, S_1x}, b \in {S_true, S_false}}}

\* a source with a department column and a rule on it
ReviewInputsRule ==
    {ReviewInput(ReviewYaml(<<MapItem("department", S_dept)>>), f, r, {}) :
        f \in DynFiles(<<S_id, S_dept>>, {S_empty, S_Eng}, MaxRows),
        r \in {<<>>, <<DynRule("R1", "department", TRUE, "none", "is_not_none", VNone)>>}}

ReviewInputs ==
    ReviewInputsEmail \cup ReviewInputsLogin \cup ReviewInputsManager
        \cup ReviewInputsName \cup ReviewInputsRule

InitReview ==
    /\ Constructed
    /\ \E inp \in ReviewInputs :
          /\ csvFile  = [s \in Sources |-> IF s = "compare" THEN inp.csv
                                           ELSE PlainInput.csv]
          /\ yamlFile = [s \in Sources |-> IF s = "compare" THEN inp.yaml
                                           ELSE PlainInput.yaml]
          /\ rules  = [exceptions |-> <<>>, validation |-> inp.rules]
          /\ config = [disable |-> {}, domains |-> inp.domains]
    /\ now = 100

\* the static checks of the loaded source
StaticCheck == StaticValidate("compare")

\* a severity query on the loaded source
QueryFindings == \E sev \in SeverityNames : Query("compare", sev)

NextReview == LoadOnce \/ StaticCheck \/ Validate \/ QueryFindings

SpecReview == InitReview /\ [][NextReview]_vars

----------------------------------------------------------------------------
(* Properties of the static checks and of the severity queries *)

\* C12: a static validate call that returns gives true iff that call added
\* no findings to the source, whatever findings the source held before.
C12_TrueIffNothingAdded ==
    (last.op = "static" /\ last.ok) =>
        (last.ret <=> findings["compare"] = prev["compare"])

\* C13: static validate never raises on a loaded source: it runs to
\* completion whatever the normalised values of the records are.
C13_ValidateCompletes ==
    last.op = "static" => last.ok

\* the login findings among the findings fl
LoginFindings(fl) ==
    SelectSeq(fl, LAMBDA f : f.key \in {"LOGIN_NEVER", "LOGIN_NEVER_AGED"})

\* C16: static validate emits no login finding for a record whose last_login
\* is mapped and is not the sentinel instant, and exactly one for every other
\* record: LOGIN_NEVER_AGED with the age in days when created_date is mapped,
\* LOGIN_NEVER otherwise.
C16_LoginFinding ==
    last.op = "static" =>
        \A ui \in 1..Len(users["compare"]) :
            LET rec    == users["compare"][ui].rec
                logins == LoginFindings(Added("compare", users["compare"][ui].key))
            IN  IF HasField("compare", "last_login")
                   /\ ~IsSentinelInstant(rec["last_login"])
                THEN logins = <<>>
                ELSE /\ Len(logins) = 1
                     /\ IF HasField("compare", "created_date")
                        THEN /\ logins[1].key = "LOGIN_NEVER_AGED"
                             /\ logins[1].params
                                  = <<Param("age", VInt(DayCount(rec["created_date"])))>>
                        ELSE logins[1].key = "LOGIN_NEVER"

\* the severity queries whose result holds finding i of user u
QueriesHolding(fs, u, i) ==
    {sev \in SeverityNames :
        /\ u \in DOMAIN GetFindingsBySeverity(fs, Severity(sev))
        /\ \E j \in 1..Len(GetFindingsBySeverity(fs, Severity(sev))[u]) :
              GetFindingsBySeverity(fs, Severity(sev))[u][j] = fs[u][i]}

\* C17: every recorded finding of a source is in the result of exactly one of
\* the four severity queries, and a query leaves the findings unchanged.
C17_SeverityPartition ==
    /\ \A s \in Sources : \A u \in DOMAIN findings[s] :
          \A i \in 1..Len(findings[s][u]) :
             Cardinality(QueriesHolding(findings[s], u, i)) = 1
    /\ last.op = "query" => findings = prev

----------------------------------------------------------------------------
(* Properties of load: failures, defaults, record keys, column resolution *)

\* the text conform receives for field f of data row r: [ok, s]
CellText(s, r, f) == Rewritten(s, f, RawCell(s, r, f).s)

\* some data row lacks the column of a mapped field
AbsentColumn(s) ==
    \E r \in 1..Len(FileRows(s)) : \E i \in 1..Len(mapping[s]) :
        RawCell(s, r, mapping[s][i].k).none

\* the mapping names a field the schema does not have, and there is a row
UnknownField(s) ==
    /\ FileRows(s) # <<>>
    /\ \E i \in 1..Len(mapping[s]) : mapping[s][i].k \notin CommonFieldNames

\* some data row holds, for a mapped date or boolean field, a text that is
\* neither empty nor a timestamp, or not a boolean word
MalformedCell(s) ==
    \E r \in 1..Len(FileRows(s)) : \E i \in 1..Len(mapping[s]) :
        LET f == mapping[s][i].k
        IN  /\ f \in CommonFieldNames
            /\ ~RawCell(s, r, f).none
            /\ CellText(s, r, f).ok
            /\ \/ /\ FieldType(f) = "date"
                  /\ CellText(s, r, f).s # <<>>
                  /\ ~ParseDate(CellText(s, r, f).s).ok
               \/ /\ FieldType(f) = "bool"
                  /\ Lower(CellText(s, r, f).s)
                        \notin {S_true, S_false, S_yes, S_no, S_1, S_0}

\* the file has a defect of one of the per-row kinds
RowDefect(s) ==
    \/ AbsentColumn(s) \/ UnknownField(s) \/ MalformedCell(s)
    \/ EnumViolation(s) \/ DuplicateIds(s)

\* the causes an error of load_csv can carry
CsvCauses ==
    {"column", "field", "enum", "date", "bool", "duplicate", "expand", "user_id", "header"}

\* C14: a load of a file with a per-row defect (absent column, enumeration
\* violation, malformed date or boolean, duplicate user_id, field outside the
\* schema) fails with an error that names the data file and carries the
\* cause; the source then holds no records and its findings are unchanged.
C14_RowFailureAbortsLoad ==
    \A s \in Sources :
        (last.op = "load" /\ last.src = s /\ mapping[s] # <<>> /\ RowDefect(s)) =>
            /\ ~last.ok
            /\ last.file = "csv"
            /\ last.cause \in CsvCauses
            /\ loaded[s] = "failed"
            /\ users[s] = <<>>
            /\ findings = prev

C14_Witness ==
    /\ last.op = "load" /\ last.src = "compare"
    /\ MalformedCell("compare")
    /\ ~last.ok /\ last.cause = "bool" /\ last.file = "csv"
    /\ users["compare"] = <<>>

\* every cell of the file is one conform accepts, or is the empty text of
\* a mapped field with a default value; the identifiers are distinct
OnlyEmptyDefaults(s) ==
    /\ HasField(s, "user_id")
    /\ ~AbsentColumn(s) /\ ~UnknownField(s) /\ ~DuplicateIds(s)
    /\ \A r \in 1..Len(FileRows(s)) : \A i \in 1..Len(mapping[s]) :
          /\ CellText(s, r, mapping[s][i].k).ok
          /\ \/ Conform(CellText(s, r, mapping[s][i].k).s, mapping[s][i].k).ok
             \/ /\ mapping[s][i].k \in DefaultFieldNames
                /\ CellText(s, r, mapping[s][i].k).s = <<>>

\* some data row holds the empty text for a mapped field with a default value
EmptyDefaultCell(s) ==
    \E r \in 1..Len(FileRows(s)) : \E f \in DefaultFieldNames :
        /\ HasField(s, f)
        /\ ~RawCell(s, r, f).none
        /\ CellText(s, r, f).ok
        /\ CellText(s, r, f).s = <<>>

\* C18 as stated: a file whose cells are all acceptable, empty cells of status
\* and paid included, loads, and a record holds the default of status and of
\* paid when the field is unmapped and when its cell is empty.
C18_DefaultWhenUnmappedOrEmpty ==
    \A s \in Sources :
        (loads[s] > 0 /\ OnlyEmptyDefaults(s)) =>
            /\ loaded[s] = "ok"
            /\ Len(users[s]) = Len(FileRows(s))
            /\ \A r \in 1..Len(users[s]) : \A f \in DefaultFieldNames :
                  (~HasField(s, f) \/ CellText(s, r, f).s = <<>>)
                      => users[s][r].rec[f] = DefaultValue(f)

\* C18, amended: a record of a loaded source holds the default of status and
\* of paid exactly when the field is unmapped; a mapped field holds the
\* coerced value of its cell, and a file with an empty cell for a mapped
\* status or paid fails to load.
C18_DefaultWhenUnmapped ==
    \A s \in Sources :
        /\ loaded[s] = "ok" =>
              \A r \in 1..Len(users[s]) : \A f \in DefaultFieldNames :
                  users[s][r].rec[f]
                      = IF HasField(s, f) THEN Conform(CellText(s, r, f).s, f).v
                        ELSE DefaultValue(f)
        /\ (loads[s] > 0 /\ EmptyDefaultCell(s)) =>
              (loaded[s] = "failed" /\ users[s] = <<>>)

C18_Witness ==
    /\ loaded["compare"] = "ok"
    /\ HasField("compare", "status") /\ ~HasField("compare", "paid")
    /\ \E r \in 1..Len(users["compare"]) :
          /\ users["compare"][r].rec["paid"] = VBool(TRUE)
          /\ users["compare"][r].rec["status"] = VStr(S_suspended)

\* C19: every record of a loaded source has exactly the schema's field names
\* as keys; a mapped field holds the coerced value of its cell, never None,
\* and an unmapped field holds None or its default value.
C19_SchemaKeys ==
    \A s \in Sources :
        loaded[s] = "ok" =>
            \A r \in 1..Len(users[s]) :
                /\ DOMAIN users[s][r].rec = CommonFieldNames
                /\ \A f \in CommonFieldNames :
                      IF HasField(s, f)
                      THEN /\ users[s][r].rec[f] = Conform(CellText(s, r, f).s, f).v
                           /\ users[s][r].rec[f] # VNone
                      ELSE users[s][r].rec[f]
                              = IF f \in DefaultFieldNames THEN DefaultValue(f)
                                ELSE VNone

C19_Witness ==
    /\ loaded["compare"] = "ok"
    /\ HasField("compare", "email") /\ ~HasField("compare", "department")
    /\ \E r \in 1..Len(users["compare"]) :
          /\ users["compare"][r].rec["email"].k = "str"
          /\ users["compare"][r].rec["department"] = VNone
          /\ DOMAIN users["compare"][r].rec = CommonFieldNames

\* the headers, by position, that regex.match(v, header) accepts
MatchingHeaders(s, v) ==
    {h \in 1..Len(FileHeader(s)) : RegexMatch(v, FileHeader(s)[h]).ok}

\* C20: after a load of a file with a header line, the column of a field is
\* its mapping value when that value is one of the headers, and otherwise the
\* first header in file order that the value matches as a pattern.
C20_ColumnResolution ==
    \A s \in Sources :
        (loads[s] > 0 /\ FileHeader(s) # <<>>) =>
            \A i \in 1..Len(yamlFile[s].mapping) :
                ColumnOf(s, yamlFile[s].mapping[i].k)
                    = IF \E h \in 1..Len(FileHeader(s)) :
                            FileHeader(s)[h] = yamlFile[s].mapping[i].v
                      THEN yamlFile[s].mapping[i].v
                      ELSE IF MatchingHeaders(s, yamlFile[s].mapping[i].v) # {}
                      THEN FileHeader(s)[SetMin(MatchingHeaders(s, yamlFile[s].mapping[i].v))]
                      ELSE yamlFile[s].mapping[i].v

----------------------------------------------------------------------------
(* Properties of the mismatch checks of compare *)

\* the seven compared fields with their finding and its parameter names
MismatchChecks ==
    {[f |-> "status", key |-> "STATUS_MISMATCH",
      sname |-> "source_status", cname |-> "compare_status"],
     [f |-> "first_name", key |-> "FIRST_NAME_MISMATCH",
      sname |-> "source_name", cname |-> "compare_name"],
     [f |-> "last_name", key |-> "LAST_NAME_MISMATCH",
      sname |-> "source_name", cname |-> "compare_name"],
     [f |-> "email", key |-> "EMAIL_MISMATCH",
      sname |-> "source_email", cname |-> "compare_email"],
     [f |-> "department", key |-> "DEPT_MISMATCH",
      sname |-> "source_dept", cname |-> "compare_dept"],
     [f |-> "location", key |-> "LOCATION_MISMATCH",
      sname |-> "source_location", cname |-> "compare_location"],
     [f |-> "title", key |-> "TITLE_MISMATCH",
      sname |-> "source_title", cname |-> "compare_title"]}

\* the findings of the key among fl
WithKey(fl, key) == SelectSeq(fl, LAMBDA f : f.key = key)

\* C15: compare completes, and for a user of both sources and each of the
\* seven fields the field's mismatch finding is emitted, once and carrying
\* both values, iff the field is mapped on both sides and the values differ.
C15_FieldMismatch ==
    last.op = "compare" =>
        /\ last.ok
        /\ \A ui \in 1..Len(users["compare"]) : \A c \in MismatchChecks :
              LET uid == users["compare"][ui].key
                  crec == users["compare"][ui].rec
              IN  uid \in DictKeys(users["truth"]) =>
                    IF /\ HasField("truth", c.f) /\ HasField("compare", c.f)
                       /\ DictGet(users["truth"], uid)[c.f] # crec[c.f]
                    THEN /\ Len(WithKey(Added("compare", uid), c.key)) = 1
                         /\ WithKey(Added("compare", uid), c.key)[1].params
                               = <<Param(c.sname, DictGet(users["truth"], uid)[c.f]),
                                   Param(c.cname, crec[c.f])>>
                    ELSE WithKey(Added("compare", uid), c.key) = <<>>

----------------------------------------------------------------------------
(* Properties of the rewrite loop *)

\* the text rule j installs for a raw text it applies to, applied once
RuleOutput(rule, raw) ==
    IF rule.null THEN rule.dst
    ELSE Expand(rule.dst, RegexMatch(rule.src, raw).groups).s

\* C21: the rules of a field are tried in declared order and at most one is
\* applied: a record holds the text installed by the first rule that applies
\* to the raw cell (a null rule applies to the empty cell only), not rewritten
\* again by later rules, and the raw cell when no rule applies.
C21_FirstRuleWins ==
    \A s \in Sources :
        loaded[s] = "ok" =>
            \A i \in 1..Len(users[s]) : \A f \in DOMAIN rewrite[s] :
                HasField(s, f) =>
                    LET raw  == RawCell(s, i, f).s
                        hits == ApplicableRules(s, f, raw)
                        val  == users[s][i].rec[f]
                    IN  /\ hits = {} => val = Conform(raw, f).v
                        /\ hits # {} =>
                              val = Conform(RuleOutput(rewrite[s][f][SetMin(hits)], raw), f).v
                        /\ \A j \in hits : rewrite[s][f][j].null => raw = <<>>
                        /\ (rewrite[s][f] = <<RuleItem(<<"b">>, P_a), NullRuleItem(<<"a">>),
                                              RuleItem(<<"c">>, P_b)>>)
                              => val = VStr(CASE raw = <<"a">> -> <<"b">>
                                              [] raw = <<"b">> -> <<"c">>
                                              [] raw = <<>>    -> <<"a">>
                                              [] OTHER         -> raw)

C21_Witness ==
    /\ loaded["compare"] = "ok"
    /\ rewrite["compare"] = ("department" :> <<RuleItem(<<"b">>, P_a), NullRuleItem(<<"a">>),
                                               RuleItem(<<"c">>, P_b)>>)
    /\ Len(users["compare"]) = 2
    /\ RawCell("compare", 1, "department").s = <<"a">>
    /\ users["compare"][1].rec["department"] = VStr(<<"b">>)
    /\ RawCell("compare", 2, "department").s = <<>>
    /\ users["compare"][2].rec["department"] = VStr(<<"a">>)

----------------------------------------------------------------------------
(* Properties of the email and manager checks of the static validation *)

\* the findings of user ui added by the last call
AddedTo(ui) == Added("compare", users["compare"][ui].key)

\* C22: with email mapped, static validate gives a record with an empty email
\* EMAIL_MISSING and neither EMAIL_INVALID nor DOMAIN_INVALID, a record with a
\* non-empty email that lacks the local@domain.tld shape EMAIL_INVALID, never
\* both, and DOMAIN_INVALID iff the domain of a non-empty email is not an
\* approved one; without the mapping it gives none of the three.
C22_EmailFindings ==
    last.op = "static" =>
        \A ui \in 1..Len(users["compare"]) :
            LET email == users["compare"][ui].rec["email"]
            IN  IF ~HasField("compare", "email")
                THEN /\ ~HasKeyIn(AddedTo(ui), "EMAIL_MISSING")
                     /\ ~HasKeyIn(AddedTo(ui), "EMAIL_INVALID")
                     /\ ~HasKeyIn(AddedTo(ui), "DOMAIN_INVALID")
                ELSE /\ HasKeyIn(AddedTo(ui), "EMAIL_MISSING") <=> email.s = <<>>
                     /\ HasKeyIn(AddedTo(ui), "EMAIL_INVALID")
                           <=> (email.s # <<>> /\ ~IsValidEmail(email.s))
                     /\ email.s = <<>> => ~HasKeyIn(AddedTo(ui), "DOMAIN_INVALID")
                     /\ Len(Split(email.s, "@")) >= 2 =>
                           (HasKeyIn(AddedTo(ui), "DOMAIN_INVALID")
                              <=> Split(email.s, "@")[2] \notin config.domains)

\* the manager findings among the findings fl
ManagerFindings(fl) ==
    SelectSeq(fl, LAMBDA f : f.key \in {"MANAGER_MISSING", "MANAGER_INVALID",
                                        "MANAGER_INACTIVE"})

\* the record counts as logged in: last_login is mapped and is not the
\* sentinel instant
LoggedIn(rec) ==
    HasField("compare", "last_login") /\ ~IsSentinelInstant(rec["last_login"])

\* C23: with manager mapped, static validate gives a record at most one
\* manager finding: MANAGER_MISSING iff the manager is the empty text,
\* MANAGER_INVALID iff it is not empty and is not the user_id of another
\* record, MANAGER_INACTIVE iff it is, that record is not logged in and the
\* subject is; without the mapping it gives no manager finding.
C23_ManagerFindings ==
    last.op = "static" =>
        \A ui \in 1..Len(users["compare"]) :
            LET rec  == users["compare"][ui].rec
                keys == DictKeys(users["compare"]) \ {users["compare"][ui].key}
            IN  IF ~HasField("compare", "manager")
                THEN ManagerFindings(AddedTo(ui)) = <<>>
                ELSE /\ Len(ManagerFindings(AddedTo(ui))) <= 1
                     /\ HasKeyIn(AddedTo(ui), "MANAGER_MISSING")
                           <=> rec["manager"].s = <<>>
                     /\ HasKeyIn(AddedTo(ui), "MANAGER_INVALID")
                           <=> (rec["manager"].s # <<>> /\ rec["manager"].s \notin keys)
                     /\ HasKeyIn(AddedTo(ui), "MANAGER_INACTIVE")
                           <=> /\ rec["manager"].s \in keys
                               /\ ~LoggedIn(DictGet(users["compare"], rec["manager"].s))
                               /\ LoggedIn(rec)

----------------------------------------------------------------------------
(* Properties of compare: users of the compare source only *)

\* the statuses with a finding of their own
SpecificStatuses ==
    {VStr(S_active), VStr(S_inactive), VStr(S_suspended), VStr(S_deleted), VStr(S_unknown)}

\* C24: a compare-only user with no applicable matching exception whose
\* source does not map status, or whose status has no finding of its own,
\* receives from the compare call the generic SOURCE_MISSING and nothing else.
C24_GenericMissing ==
    last.op = "compare" =>
        \A i \in 1..Len(users["compare"]) :
            (/\ CompareOnly(i)
             /\ ~HasMatchingException(users["compare"][i].rec)
             /\ \/ ~HasField("compare", "status")
                \/ users["compare"][i].rec["status"] \notin SpecificStatuses)
            => KeysOf(Added("compare", users["compare"][i].key)) = <<"SOURCE_MISSING">>

\* the exceptions considered for the compare source whose pattern matches
\* at the start of the record's value of their field
MatchingExceptions(rec) ==
    {j \in 1..Len(rules.exceptions) :
        /\ ExceptionApplies(rules.exceptions[j], name["compare"])
        /\ RecGet(rec, rules.exceptions[j].field).k = "str"
        /\ RegexMatch(rules.exceptions[j].pattern,
                      RecGet(rec, rules.exceptions[j].field).s).ok}

MissingKeys ==
    {"SOURCE_MISSING", "SOURCE_MISSING_ACTIVE", "SOURCE_MISSING_INACTIVE",
     "SOURCE_MISSING_SUSPENDED", "SOURCE_MISSING_DELETED", "SOURCE_MISSING_UNKNOWN"}

\* C25: for a compare-only user the compare call adds DOCUMENTED_EXCEPTION
\* with the reason of the first exception, in declared order, that is
\* considered for the compare source (named in its only list if it has one,
\* not named in its skip list) and matches; when no considered exception
\* matches, the user receives a SOURCE_MISSING finding whatever the other
\* exceptions are.
C25_FirstApplicableException ==
    last.op = "compare" =>
        \A i \in 1..Len(users["compare"]) :
            CompareOnly(i) =>
                LET rec == users["compare"][i].rec
                    added == Added("compare", users["compare"][i].key)
                IN  IF MatchingExceptions(rec) # {}
                    THEN added = <<Bind(FindingType("DOCUMENTED_EXCEPTION"),
                                        <<Param("reason",
                                                VStr(rules.exceptions[SetMin(MatchingExceptions(rec))].reason))>>)>>
                    ELSE /\ Len(added) = 1
                         /\ added[1].key \in MissingKeys

----------------------------------------------------------------------------
(* Properties of validate: what a rule can emit *)

\* the triggers of the elif chain
SupportedTriggers ==
    {"greater_than", "less_than", "equal_to", "not_equal_to", "equal_to_case",
     "not_equal_to_case", "contains", "not_contains", "starts_with", "ends_with",
     "starts_with_case", "ends_with_case", "matches", "not_matches", "in",
     "not_in", "is_true", "is_false", "is_none", "is_not_none"}

\* the rules that can emit a finding named n: their field is mapped and
\* their trigger is one of the chain
EmittingRules(n) ==
    {ri \in 1..Len(rules.validation) :
        /\ rules.validation[ri].name = n
        /\ HasField("compare", rules.validation[ri].field)
        /\ rules.validation[ri].trigger \in SupportedTriggers}

\* the findings of a list with the given key
WithName(fs, n) == {i \in 1..Len(fs) : fs[i].key = n}

\* C26: in a validate call a rule on an unmapped field or with an
\* unsupported trigger emits nothing, a rule emits at most one finding for a
\* record, and every finding emitted is bound with the record's value of the
\* rule's field, transformed by the rule's operation, on which the rule's
\* own trigger holds.
C26_RuleEmission ==
    last.op = "validate" =>
        \A ui \in 1..Len(users["compare"]) :
            LET added == Added("compare", users["compare"][ui].key)
                rec   == users["compare"][ui].rec
            IN  /\ \A ri \in 1..Len(rules.validation) :
                      Cardinality(WithName(added, rules.validation[ri].name))
                          <= Cardinality(EmittingRules(rules.validation[ri].name))
                /\ \A i \in 1..Len(added) :
                      \E ri \in EmittingRules(added[i].key) :
                          LET rule == rules.validation[ri]
                              tv   == Operated(rule, RecGet(rec, rule.field))
                          IN  /\ tv.ok
                              /\ Triggered(rule, tv.v).ok
                              /\ Triggered(rule, tv.v).hit
                              /\ added[i].params = <<Param("value", tv.v)>>

\* a validate call where the rule on an unmapped field emitted nothing and
\* the days_since rule after it emitted a finding bound with the day count
C26_Witness ==
    /\ last.op = "validate"
    /\ Len(rules.validation) = 2
    /\ ~HasField("compare", rules.validation[1].field)
    /\ rules.validation[1].trigger = "is_none"
    /\ rules.validation[2].operation = "days_since"
    /\ \E ui \in 1..Len(users["compare"]) :
          LET added == Added("compare", users["compare"][ui].key)
          IN  /\ Len(added) = 1
              /\ added[1].key = rules.validation[2].name
              /\ added[1].params[1].v.k = "int"

----------------------------------------------------------------------------
(* Report.generate: reporting/report.py, for one source and no included    *)
(* field.  The rows are kept per user_id, in the order they are appended.  *)

\* Severity.__str__: the value of the member
SeverityValue(v) ==
    CASE v = "compliance" -> <<"c","o","m","p","l","i","a","n","c","e">>
      [] v = "error"      -> <<"e","r","r","o","r">>
      [] v = "warning"    -> <<"w","a","r","n","i","n","g">>
      [] v = "notice"     -> <<"n","o","t","i","c","e">>

\* str(finding.severity).upper()
SeverityStr(sev) ==
    IF "enum" \in DOMAIN sev THEN Upper(SeverityValue(sev.enum)) ELSE Upper(ToStr(sev))

FindingRow(s, u, f) ==
    [source |-> name[s], user_id |-> u, severity |-> SeverityStr(f.severity),
     finding |-> f.key, message |-> Message(f)]

CleanRow(s, u) ==
    [source |-> name[s], user_id |-> u, severity |-> <<"I","N","F","O">>,
     finding |-> "CLEAN",
     message |-> [formatted |-> TRUE, text |-> <<[lit |-> "No issues found"]>>]]

\* the rows generate appends for source s
ReportRows(s) ==
    [u \in DOMAIN findings[s] \cup DictKeys(users[s]) |->
        IF u \in DOMAIN findings[s]
        THEN [i \in 1..Len(findings[s][u]) |-> FindingRow(s, u, findings[s][u][i])]
        ELSE <<CleanRow(s, u)>>]

Generate(s) ==
    /\ loaded[s] = "ok"
    /\ ops < MaxOps
    /\ last' = [op |-> "report", src |-> s, ok |-> TRUE, cause |-> "none",
                rule |-> NoRule, ret |-> ReportRows(s)]
    /\ prev' = findings
    /\ ops' = ops + 1
    /\ UNCHANGED <<name, mapping, rewrite, users, managers, findings, loaded, loads>>
    /\ UNCHANGED envVars

----------------------------------------------------------------------------
(* A whole run: both sources are loaded, then the compare source goes      *)
(* through the static checks, the comparison, the rule engine and the      *)
(* report, in any order, up to MaxOps calls.                               *)

RunYaml(n) ==
    [name |-> n,
     mapping |-> <<MapItem("user_id", S_id), MapItem("email", S_mail),
                   MapItem("department", S_dept)>>,
     rewrite |-> NoRewrite, options |-> NoOptions]

RunHeader == <<S_id, S_mail, S_dept>>

\* exceptions with an empty and a non-empty reason; rules whose reason can
\* and cannot be instantiated; nothing disabled, or one finding of each call
RunInputs ==
    {[truth |-> [yaml |-> RunYaml(<<"h","r">>),
                 csv |-> <<RunHeader, <<S_u1, At(S_a, S_x), S_Eng>>>>],
      compare |-> [yaml |-> RunYaml(S_sso), csv |-> f],
      exceptions |-> e, validation |-> r, disable |-> d] :
        f \in FilesOf(RunHeader,
                      {<<i, m, S_Eng>> : i \in {S_u1, S_c42}, m \in {S_empty, At(S_a, S_y)}},
                      MaxRows),
        e \in {<<>>, <<Exception("user_id", P_contractor, S_empty)>>,
               <<Exception("user_id", P_contractor, S_r1)>>},
        r \in {<<[DynRule("R1", "department", FALSE, "none", "is_not_none", VNone)
                    EXCEPT !.reason = rs]>> : rs \in {R_value, R_user_field}}
              \cup {<<>>},
        d \in {{}, {"EMAIL_MISSING", "SOURCE_MISSING_ACTIVE", "R1"}}}

InitRun ==
    /\ Constructed
    /\ \E inp \in RunInputs :
          /\ csvFile  = [s \in Sources |-> IF s = "compare" THEN inp.compare.csv
                                           ELSE inp.truth.csv]
          /\ yamlFile = [s \in Sources |-> IF s = "compare" THEN inp.compare.yaml
                                           ELSE inp.truth.yaml]
          /\ rules  = [exceptions |-> inp.exceptions, validation |-> inp.validation]
          /\ config = [disable |-> inp.disable, domains |-> {S_x}]
    /\ now = 100

\* the report of the compare source
Report == Generate("compare")

NextRun == LoadTruth \/ LoadCompare \/ StaticCheck \/ Compare \/ Validate \/ Report

SpecRun == InitRun /\ [][NextRun]_vars

----------------------------------------------------------------------------
(* Properties of the findings of a run *)

\* every list of findings is extended at its end, and no user_id leaves
AppendOnlyStep ==
    \A s \in Sources :
        \A u \in DOMAIN findings[s] :
            /\ u \in DOMAIN findings'[s]
            /\ Len(findings[s][u]) <= Len(findings'[s][u])
            /\ SubSeq(findings'[s][u], 1, Len(findings[s][u])) = findings[s][u]

\* C27: findings are append-only across the static checks, the comparison
\* and the rule engine: after any call every user's list has its earlier
\* list as a prefix and no user_id is removed.
C27_AppendOnly == [][AppendOnlyStep]_vars

\* a second call extended the list a user had after the first
C27_Witness ==
    /\ ops = 2
    /\ last.op \in {"static", "compare", "validate"}
    /\ \E u \in DOMAIN prev["compare"] :
          /\ Len(prev["compare"][u]) >= 1
          /\ Len(findings["compare"][u]) > Len(prev["compare"][u])

\* the users of the source of truth that the compare source does not have
TruthOnly == DictKeys(users["truth"]) \ DictKeys(users["compare"])

\* what a compare call leaves alone
CompareFrame ==
    /\ users' = users
    /\ mapping' = mapping
    /\ findings'["truth"] = findings["truth"]
    /\ \A u \in DOMAIN findings'["compare"] \ DictKeys(users["compare"]) :
          /\ u \in DOMAIN findings["compare"]
          /\ findings'["compare"][u] = findings["compare"][u]
    /\ \A u \in TruthOnly, s \in Sources :
          FindingsOf(findings'[s], u) = FindingsOf(findings[s], u)

\* C28: a compare call changes nothing but the findings of the compare
\* source, and those only under user_ids of its own records: the records and
\* findings of the source of truth, the records of the compare source and
\* both mappings are as before, and a user the compare source does not have
\* receives no finding on either source.
C28_CompareFrame ==
    [][(ops' # ops /\ last'.op = "compare") => CompareFrame]_vars

\* a compare call that added a finding while the source of truth had a user
\* the compare source does not have
C28_Witness ==
    /\ last.op = "compare"
    /\ TruthOnly # {}
    /\ prev["compare"] # findings["compare"]

\* the template a recorded finding was instantiated from: the one a rule of
\* the rule file builds, or the built-in one of that key
TemplateOf(f) ==
    IF RulesNamed(f.key) # {}
    THEN RuleFinding(CHOOSE rule \in RulesNamed(f.key) : TRUE)
    ELSE FindingType(f.key)

\* C29: instantiating a finding template returns a bound finding with the
\* key and the severity of the template whose message reads as the
\* template's description with the parameters substituted, also when the
\* substituted text is empty.
C29_BoundMessage ==
    /\ last.op = "validate" => last.cause # "format"
    /\ \A u \in DOMAIN findings["compare"] :
          \A i \in 1..Len(findings["compare"][u]) :
              LET f == findings["compare"][u][i]
              IN  /\ f.key = TemplateOf(f).key
                  /\ f.severity = TemplateOf(f).severity
                  /\ Message(f) = [formatted |-> TRUE,
                                   text |-> MarkedMessage(TemplateOf(f).description,
                                                          f.params)]

\* the user has a CLEAN row in the report
HasCleanRow(rows, u) ==
    /\ u \in DOMAIN rows
    /\ \E i \in 1..Len(rows[u]) : rows[u][i].finding = "CLEAN"

\* C30: every user_id of a findings map has a non-empty list, none of whose
\* findings has a disabled key; has_findings() is true iff at least one
\* finding is recorded; a user gets a CLEAN row in the report iff no finding
\* is recorded for it.
C30_RecordedFindings ==
    /\ \A s \in Sources :
          \A u \in DOMAIN findings[s] :
              /\ findings[s][u] # <<>>
              /\ \A i \in 1..Len(findings[s][u]) :
                    findings[s][u][i].key \notin config.disable
    /\ HasFindings(findings["compare"])
          <=> \E u \in DOMAIN findings["compare"] : findings["compare"][u] # <<>>
    /\ last.op = "report" =>
          \A u \in DictKeys(users["compare"]) :
              HasCleanRow(last.ret, u) <=> FindingsOf(findings["compare"], u) = <<>>

====
